---- MODULE Spec2Model ----
(***************************************************************************)
(* PAA texture container codec (WoozyMasta/paa).                           *)
(*                                                                         *)
(* The encoder (write.go, EncodeWithOptions) is a step machine: one        *)
(* preparation step (statistics, format choice, mip chain, per-mip         *)
(* compression) followed by one step per part written to the output.       *)
(* The output is kept as the sequence of parts written, each with its byte *)
(* length and its header fields as the code stores them (truncated to the  *)
(* field's width).  The decoders (read.go, read_shared.go, mip_map.go)     *)
(* are operators over such a file.                                         *)
(*                                                                         *)
(* External collaborators (BCn block encoder, mip generator, LZO, LZSS)    *)
(* are represented by the sizes they return; a compressor's result length  *)
(* is drawn from a small set of behaviours (LzBehaviours).                 *)
(***************************************************************************)
EXTENDS Integers, Sequences, FiniteSets, TLC

VARIABLES
    call,   \* the entry point called and, for EncodeWithTexConfigOptions, the
            \* resolved hint, the config flags and the override
    pc,     \* position of the encoder / decoder
    img,    \* input image: [w, h, pal]; pixel i (row-major) is pal[(i % Len(pal)) + 1]
    opts,   \* *EncodeOptions; opts.isNil is the nil pointer
    mips,   \* []mipBlock built by the preparation loop
    hdr,    \* values computed before the first write (paxType, tag decisions)
    mi,     \* index of the next mip block to write (1-based)
    out,    \* the parts written to w so far
    err,    \* error returned by the encoder ("none" while running / on success)
    dec,    \* result of a decoder entry point run on the file
    rs,     \* a call of texconfig.ResolveTexConvert / wildcardMatch
    cf,     \* package texconfig: the default config, its lock and its callers
    sw      \* one pixel taken through the encoder's swizzle and the decoder's ZIWS step

codec == <<call, pc, img, opts, mips, hdr, mi, out, err, dec>>
vars == <<call, pc, img, opts, mips, hdr, mi, out, err, dec, rs, cf, sw>>

----------------------------------------------------------------------------
(* PaxType, magic bytes *)

PaxGRAYA == 1
PaxARGBA5 == 3
PaxARGB4 == 4
PaxARGB8 == 5
PaxDXT1 == 6
PaxDXT2 == 7
PaxDXT3 == 8
PaxDXT4 == 9
PaxDXT5 == 10

isDXT(t) == t \in {PaxDXT1, PaxDXT2, PaxDXT3, PaxDXT4, PaxDXT5}

\* PaxType.Bytes: the 2-byte file magic
Bytes(p) ==
    CASE p = PaxDXT1 -> <<1, 255>>
      [] p = PaxDXT2 -> <<2, 255>>
      [] p = PaxDXT3 -> <<3, 255>>
      [] p = PaxDXT4 -> <<4, 255>>
      [] p = PaxDXT5 -> <<5, 255>>
      [] p = PaxARGB4 -> <<68, 68>>
      [] p = PaxARGBA5 -> <<85, 21>>
      [] p = PaxARGB8 -> <<136, 136>>
      [] p = PaxGRAYA -> <<128, 128>>
      [] OTHER -> <<0, 0>>

\* PaxTypeFromBytes: 0 stands for (0, false)
PaxTypeFromBytes(b) ==
    IF Len(b) < 2 THEN 0
    ELSE LET v == b[1] + 256 * b[2] IN
         CASE v = 65281 -> PaxDXT1
           [] v = 65282 -> PaxDXT2
           [] v = 65283 -> PaxDXT3
           [] v = 65284 -> PaxDXT4
           [] v = 65285 -> PaxDXT5
           [] v = 17476 -> PaxARGB4
           [] v = 5461 -> PaxARGBA5
           [] v = 34952 -> PaxARGB8
           [] v = 32896 -> PaxGRAYA
           [] OTHER -> 0

\* expectedMipSize: raw byte size of a mip; -1 for an unsupported format
expectedMipSize(paxType, width, height) ==
    IF width <= 0 \/ height <= 0 THEN 0
    ELSE CASE paxType = PaxDXT1 -> ((width + 3) \div 4) * ((height + 3) \div 4) * 8
           [] paxType \in {PaxDXT2, PaxDXT3, PaxDXT4, PaxDXT5} ->
                  ((width + 3) \div 4) * ((height + 3) \div 4) * 16
           [] paxType = PaxARGB8 -> width * height * 4
           [] paxType \in {PaxARGBA5, PaxARGB4} -> width * height * 2
           [] paxType = PaxGRAYA -> width * height * 2
           [] OTHER -> -1

----------------------------------------------------------------------------
(* Numeric helpers *)

Max(a, b) == IF a > b THEN a ELSE b
Min(a, b) == IF a < b THEN a ELSE b

RECURSIVE SumSeq(_)
SumSeq(s) == IF s = <<>> THEN 0 ELSE Head(s) + SumSeq(Tail(s))

\* F applied to the value of v, which is computed once
Bind(v, F(_)) == CHOOSE r \in {F(x) : x \in {v}} : TRUE

\* widths of the integer conversions the writer performs
U16 == 65536
U24 == 16777216

----------------------------------------------------------------------------
(* Input image: a w x h NRGBA image whose pixels repeat the palette pal     *)
(* along the row-major pixel index.  A pixel is <<R, G, B, A>>.             *)

PixelCount(im) == im.w * im.h

\* palette entries that occur in the image
UsedPal(im) == 1 .. Min(Len(im.pal), PixelCount(im))

\* sum of channel c over all pixels (the accumulation loop of write.go:40-67)
ChannelSum(im, c) ==
    LET k == Len(im.pal)
        n == PixelCount(im)
        whole == SumSeq([i \in 1 .. k |-> im.pal[i][c]])
        part == SumSeq([i \in 1 .. (n % k) |-> im.pal[i][c]])
    IN (n \div k) * whole + part

\* maximum of channel c (0 for an empty image)
ChannelMax(im, c) ==
    IF UsedPal(im) = {} THEN 0
    ELSE CHOOSE m \in {im.pal[i][c] : i \in UsedPal(im)} :
             \A i \in UsedPal(im) : im.pal[i][c] <= m

\* hasAlpha: some pixel has a8 < 255
hasAlpha(im) == \E i \in UsedPal(im) : im.pal[i][4] < 255

----------------------------------------------------------------------------
(* EncodeOptions (encode_options.go).  GenerateMipmaps is a *bool:          *)
(* "nil", "true" or "false"; Swizzle is "nil" or "set".  A nil options      *)
(* pointer is isNil = TRUE.                                                *)

\* a *bcn.EncodeOptions as mergeBCnOptions reads it (part_001:306-345); the
\* pointers RGBWeights and Refinement are "nil" or the name of their value
NilBCn ==
    [isNil |-> TRUE, RGBWeights |-> "nil", Refinement |-> "nil", QualityLevel |-> 0,
     Workers |-> 0, GenerateMipmaps |-> FALSE, UseSRGB |-> FALSE, AlphaThreshold |-> 0]
ZeroBCn == [NilBCn EXCEPT !.isNil = FALSE]

ZeroOpts ==
    [isNil |-> FALSE, Type |-> 0, NormalMapSwizzle |-> FALSE,
     WriteNohqSwizzleTag |-> FALSE, WriteSwizzleTag |-> FALSE,
     SwizzleTag |-> <<0, 0, 0, 0>>, WriteGALF |-> FALSE, GALFValue |-> 0,
     ForceCXAMFull |-> FALSE, UseLZO |-> FALSE, ForceLZSS |-> FALSE,
     Swizzle |-> "nil", SkipSwizzle |-> FALSE,
     GenerateMipmaps |-> "nil", MaxMipCount |-> 0, MinMipSize |-> 0,
     BCn |-> NilBCn, MipmapFilter |-> "nil", UseSRGB |-> FALSE]

NilOpts == [ZeroOpts EXCEPT !.isNil = TRUE]

----------------------------------------------------------------------------
(* External collaborators, by the sizes they return                        *)

\* bcn.GenerateMipmaps: the full chain of level sizes, each level half the
\* previous one (at least 1), down to 1x1
RECURSIVE GenerateMipmaps(_, _)
GenerateMipmaps(w, h) ==
    IF w <= 1 /\ h <= 1 THEN << <<w, h>> >>
    ELSE << <<w, h>> >> \o GenerateMipmaps(Max(1, w \div 2), Max(1, h \div 2))

\* behaviours of lzo.Compress / lzss.Compress: the length of the result for
\* an input of n bytes
LzBehaviours == {"shrink", "same", "grow", "mixed"}

CompressedLen(b, n) ==
    CASE b = "shrink" -> Max(1, n \div 2)
      [] b = "same" -> n
      [] b = "grow" -> n + 3
      [] OTHER -> IF n >= 64 THEN n \div 2 ELSE n + 3

----------------------------------------------------------------------------
(* EncodeWithOptions, the part before the first write (write.go:27-240)    *)

\* a format choice that does not look at the alpha channel
ChosenPaxTypeOpaque(o, alpha) ==
    IF ~o.isNil /\ o.Type # 0 THEN o.Type
    ELSE IF ~o.isNil /\ o.NormalMapSwizzle THEN PaxDXT5
    ELSE PaxDXT1

\* write.go:77-86
ChosenPaxType(o, alpha) ==
    IF ~o.isNil /\ o.Type # 0 THEN o.Type
    ELSE IF ~o.isNil /\ o.NormalMapSwizzle THEN PaxDXT5
    ELSE IF alpha THEN PaxDXT5
    ELSE PaxDXT1

\* the DXT default used for every format
DefaultMinMipSizeDXT(paxType) == 4

\* write.go:92-118: effective mip limits
DefaultMinMipSize(paxType) == IF isDXT(paxType) THEN 4 ELSE 1

EffGenerateMips(o) == IF ~o.isNil /\ o.GenerateMipmaps # "nil" THEN o.GenerateMipmaps = "true" ELSE TRUE
EffMaxMipCount(o) == IF ~o.isNil /\ o.MaxMipCount > 0 THEN o.MaxMipCount ELSE 0
EffMinMipSize(o, paxType) ==
    IF ~o.isNil /\ o.MinMipSize > 0 THEN o.MinMipSize ELSE DefaultMinMipSize(paxType)

\* write.go:166-176: the loop that cuts the generated chain; chain is what
\* is left of the generated levels, acc the levels kept so far
RECURSIVE TakeMips(_, _, _, _)
TakeMips(chain, acc, maxMipCount, minMipSize) ==
    IF chain = <<>> THEN acc
    ELSE LET m == Head(chain)
             kept == Append(acc, m)
         IN IF maxMipCount > 0 /\ Len(kept) >= maxMipCount THEN kept
            ELSE IF m[1] <= minMipSize /\ m[2] <= minMipSize THEN kept
            ELSE TakeMips(Tail(chain), kept, maxMipCount, minMipSize)

\* write.go:162-177
MipImages(o, paxType, im) ==
    IF EffGenerateMips(o)
    THEN TakeMips(GenerateMipmaps(im.w, im.h), <<>>,
                  EffMaxMipCount(o), EffMinMipSize(o, paxType))
    ELSE << <<im.w, im.h>> >>

\* write.go:188-202: size of the uncompressed payload of one level and the
\* error of the pixel encoder ("none" when it succeeds).  DXT formats other
\* than DXT5 go through the DXT1 block encoder (8 bytes per block).
PayloadErr(paxType, w, h) ==
    IF isDXT(paxType) THEN "none"
    ELSE IF w <= 0 \/ h <= 0 THEN "InvalidDimensions"
    ELSE IF paxType \in {PaxARGB8, PaxARGBA5, PaxARGB4, PaxGRAYA} THEN "none"
    ELSE "UnsupportedPixelFmt"

PayloadLen(paxType, w, h) ==
    IF isDXT(paxType)
    THEN ((w + 3) \div 4) * ((h + 3) \div 4) * (IF paxType = PaxDXT5 THEN 16 ELSE 8)
    ELSE IF paxType = PaxARGB8 THEN w * h * 4
    ELSE w * h * 2

\* a block builder that takes the compressed data when it is not longer
MakeMipBlockNotLonger(o, paxType, b, w, h) ==
    LET raw == PayloadLen(paxType, w, h)
        comp == CompressedLen(b, raw)
        useLZO == ~o.isNil /\ o.UseLZO /\ isDXT(paxType)
        useLZ == useLZO /\ comp <= raw
        forceLZSS == ~o.isNil /\ o.ForceLZSS
        lzss == ~isDXT(paxType) /\ (forceLZSS \/ comp <= raw)
    IN [w |-> w, h |-> h, useLZ |-> useLZ,
        comp |-> IF useLZO \/ ~isDXT(paxType) THEN comp ELSE 0,
        dlen |-> IF useLZ \/ lzss THEN comp ELSE raw,
        enc |-> IF useLZ THEN "lzo" ELSE IF lzss THEN "lzss" ELSE "raw",
        rawlen |-> raw]

\* write.go:204-239: one mipBlock.  enc records how data was produced
\* ("raw", "lzo", "lzss"); rawlen is the length before compression; comp is
\* the length the compressor returned (0 when none was run).
MakeMipBlock(o, paxType, b, w, h) ==
    LET raw == PayloadLen(paxType, w, h)
        comp == CompressedLen(b, raw)
        useLZO == ~o.isNil /\ o.UseLZO /\ isDXT(paxType)
        useLZ == useLZO /\ comp < raw
        forceLZSS == ~o.isNil /\ o.ForceLZSS
        lzss == ~isDXT(paxType) /\ (forceLZSS \/ comp < raw)
    IN [w |-> w, h |-> h, useLZ |-> useLZ,
        comp |-> IF useLZO \/ ~isDXT(paxType) THEN comp ELSE 0,
        dlen |-> IF useLZ \/ lzss THEN comp ELSE raw,
        enc |-> IF useLZ THEN "lzo" ELSE IF lzss THEN "lzss" ELSE "raw",
        rawlen |-> raw]

\* write.go:126-150: GALF / ZIWS decisions
WritesGALF(o, paxType) == IF ~o.isNil THEN o.WriteGALF ELSE paxType = PaxDXT5
GalfValue(o) == IF ~o.isNil /\ o.WriteGALF /\ o.GALFValue # 0 THEN o.GALFValue ELSE 1
WritesZIWS(o) == ~o.isNil /\ (o.WriteNohqSwizzleTag \/ o.WriteSwizzleTag)
ZiwsTag(o) ==
    IF ~o.isNil /\ o.WriteSwizzleTag THEN o.SwizzleTag
    ELSE IF ~o.isNil /\ o.WriteNohqSwizzleTag THEN <<5, 4, 2, 3>>
    ELSE <<0, 0, 0, 0>>

\* a CGVA payload in R,G,B,A order
CgvaPayloadRGBA(im) ==
    IF PixelCount(im) > 0
    THEN <<ChannelSum(im, 1) \div PixelCount(im), ChannelSum(im, 2) \div PixelCount(im),
           ChannelSum(im, 3) \div PixelCount(im), ChannelSum(im, 4) \div PixelCount(im)>>
    ELSE <<0, 0, 0, 0>>

\* write.go:69-75, 274: CGVA payload, B,G,R,A order
Avg(im, c) == IF PixelCount(im) > 0 THEN ChannelSum(im, c) \div PixelCount(im) ELSE 0
CgvaPayload(im) == <<Avg(im, 3) % 256, Avg(im, 2) % 256, Avg(im, 1) % 256, Avg(im, 4) % 256>>

\* CXAM forced only by the two option flags
CxamFullFlagsOnly(o, paxType) ==
    (~o.isNil /\ o.NormalMapSwizzle) \/ (~o.isNil /\ o.ForceCXAMFull)

\* write.go:264-272, 277: CXAM payload, B,G,R,A order
CxamFull(o, paxType) ==
    (~o.isNil /\ o.NormalMapSwizzle) \/ (~o.isNil /\ o.ForceCXAMFull) \/ (o.isNil /\ isDXT(paxType))
CxamPayload(o, paxType, im) ==
    IF CxamFull(o, paxType) THEN <<255, 255, 255, 255>>
    ELSE <<ChannelMax(im, 3), ChannelMax(im, 2), ChannelMax(im, 1), ChannelMax(im, 4)>>

\* a first offset that leaves the GALF and ZIWS tags out
BaseOffsetFixedTags(wg, wz) == 2 + 16 + 16 + 76 + 2

\* a first offset that counts the SFFO tag as 16 + 64 bytes
BaseOffsetWide(wg, wz) ==
    2 + 16 + 16 + (IF wg THEN 16 ELSE 0) + (IF wz THEN 16 ELSE 0) + 80 + 2

\* write.go:293-302: offset of the first mip block
BaseOffset(wg, wz) ==
    2 + 16 + 16 + (IF wg THEN 16 ELSE 0) + (IF wz THEN 16 ELSE 0) + 76 + 2

\* write.go:304-310: the 16 SFFO entries.  Each is uint32(off); every file of
\* the model is shorter than 2^31 bytes (MaxPixels), so the conversion keeps
\* the value.
\* an SFFO table whose running offset is not advanced by the block lengths
RECURSIVE SffoFillStuck(_, _, _)
SffoFillStuck(ms, i, off) ==
    IF i > 16 THEN <<>>
    ELSE IF i <= Len(ms)
         THEN <<off>> \o SffoFillStuck(ms, i + 1, off)
         ELSE <<0>> \o SffoFillStuck(ms, i + 1, off)

RECURSIVE SffoFill(_, _, _)
SffoFill(ms, i, off) ==
    IF i > 16 THEN <<>>
    ELSE IF i <= Len(ms)
         THEN <<off>> \o SffoFill(ms, i + 1, off + 2 + 2 + 3 + ms[i].dlen)
         ELSE <<0>> \o SffoFill(ms, i + 1, off)

SffoTable(ms, wg, wz) == SffoFill(ms, 1, BaseOffset(wg, wz))

----------------------------------------------------------------------------
(* EncodeWithTexConfigOptions (part_001): options from a resolved hint     *)

\* texconfig.TexFormat (part_007:14-23)
TexFormatDefault == 0
TexFormatP8 == 1
TexFormatARGB4444 == 2
TexFormatARGB1555 == 3
TexFormatAI88 == 4
TexFormatDXT1 == 5
TexFormatDXT2 == 6
TexFormatDXT3 == 7
TexFormatDXT4 == 8
TexFormatDXT5 == 9

\* SwizzleSource (part_007:254-257); any other value is no channel
SwizzleA == 0
SwizzleR == 1
SwizzleG == 2
SwizzleB == 3

\* SwizzleExpr (part_007:298-304) and the expressions ParseSwizzleExpr builds
ZeroExpr == [Source |-> SwizzleA, Valid |-> FALSE, IsConst |-> FALSE, ConstValue |-> 0,
             Invert |-> FALSE]
Sel(src) == [ZeroExpr EXCEPT !.Valid = TRUE, !.Source = src]
Neg(src) == [ZeroExpr EXCEPT !.Valid = TRUE, !.Source = src, !.Invert = TRUE]
Const(v) == [ZeroExpr EXCEPT !.Valid = TRUE, !.IsConst = TRUE, !.ConstValue = v]

\* channelValue (part_007:413-426); a pixel is <<R, G, B, A>>
channelValue(src, px) ==
    CASE src = SwizzleA -> px[4]
      [] src = SwizzleR -> px[1]
      [] src = SwizzleG -> px[2]
      [] src = SwizzleB -> px[3]
      [] OTHER -> 0

\* SwizzleExpr.apply (part_007:382-397)
applyExpr(e, px, def) ==
    IF ~e.Valid THEN channelValue(def, px)
    ELSE IF e.IsConst THEN e.ConstValue
    ELSE IF e.Invert THEN 255 - channelValue(e.Source, px)
    ELSE channelValue(e.Source, px)

\* ChannelSwizzle.apply (part_007:442-449) on one pixel, as ApplyChannelSwizzle
\* does for every pixel
applySwizzle(s, px) ==
    <<applyExpr(s.R, px, SwizzleR), applyExpr(s.G, px, SwizzleG),
      applyExpr(s.B, px, SwizzleB), applyExpr(s.A, px, SwizzleA)>>

\* SwizzleExpr.isDefault (part_007:400-410), ChannelSwizzle.IsIdentity
isDefault(e, def) == ~e.Valid \/ (~e.IsConst /\ e.Source = def /\ ~e.Invert)
IsIdentity(s) ==
    /\ isDefault(s.R, SwizzleR) /\ isDefault(s.G, SwizzleG)
    /\ isDefault(s.B, SwizzleB) /\ isDefault(s.A, SwizzleA)

\* a selector table without the negated variants
ziwsValueNoInvert(expr, def) ==
    LET e == IF expr.Valid THEN expr ELSE Sel(def) IN
    IF e.IsConst THEN [v |-> IF e.ConstValue = 0 THEN 9 ELSE 8, ok |-> TRUE]
    ELSE IF e.Source \in {SwizzleA, SwizzleR, SwizzleG, SwizzleB}
         THEN [v |-> e.Source, ok |-> TRUE]
    ELSE [v |-> 0, ok |-> FALSE]

\* ziwsValue (part_007:501-544): the selector byte of one expression
ziwsValue(expr, def) ==
    LET e == IF expr.Valid THEN expr ELSE Sel(def) IN
    IF e.IsConst THEN [v |-> IF e.ConstValue = 0 THEN 9 ELSE 8, ok |-> TRUE]
    ELSE IF e.Source \in {SwizzleA, SwizzleR, SwizzleG, SwizzleB}
         THEN [v |-> IF e.Invert THEN e.Source + 4 ELSE e.Source, ok |-> TRUE]
    ELSE [v |-> 0, ok |-> FALSE]

\* ChannelSwizzle.ZIWSTag (part_007:453-484): bytes in A, R, G, B order
ZIWSTag(s) ==
    LET a == ziwsValue(s.A, SwizzleA)
        r == ziwsValue(s.R, SwizzleR)
        g == ziwsValue(s.G, SwizzleG)
        b == ziwsValue(s.B, SwizzleB)
    IN IF IsIdentity(s) THEN [tag |-> <<0, 0, 0, 0>>, ok |-> FALSE, err |-> FALSE]
       ELSE IF ~a.ok THEN [tag |-> <<0, 0, 0, 0>>, ok |-> FALSE, err |-> TRUE]
       ELSE IF ~r.ok THEN [tag |-> <<a.v, 0, 0, 0>>, ok |-> FALSE, err |-> TRUE]
       ELSE IF ~g.ok THEN [tag |-> <<a.v, r.v, 0, 0>>, ok |-> FALSE, err |-> TRUE]
       ELSE IF ~b.ok THEN [tag |-> <<a.v, r.v, g.v, 0>>, ok |-> FALSE, err |-> TRUE]
       ELSE [tag |-> <<a.v, r.v, g.v, b.v>>, ok |-> TRUE, err |-> FALSE]

\* usesAlphaForRGB (part_001:414-420)
usesAlphaForRGB(s) ==
    /\ \A e \in {s.R, s.G, s.B} : e.Valid /\ e.Source = SwizzleA /\ ~e.Invert /\ ~e.IsConst
    /\ s.A.Valid /\ s.A.IsConst /\ s.A.ConstValue = 255

\* a ChannelSwizzle with the results of IsIdentity, usesAlphaForRGB and ZIWSTag
\* on it
Swz(r, g, b, a) ==
    LET s == [R |-> r, G |-> g, B |-> b, A |-> a] IN
    [identity |-> IsIdentity(s), alphaForRGB |-> usesAlphaForRGB(s),
     tag |-> ZIWSTag(s).tag, tagErr |-> ZIWSTag(s).err, R |-> r, G |-> g, B |-> b, A |-> a]

IdentitySwz == Swz(ZeroExpr, ZeroExpr, ZeroExpr, ZeroExpr)

\* a TextureHint with the fields the encoder reads; ok is the second result
\* of texconfig.Resolve
NoHint ==
    [ok |-> FALSE, ClassName |-> "", EnableDXT |-> "nil", Format |-> TexFormatDefault,
     Swizzle |-> IdentitySwz, VirtualSwz |-> "nil", AutoReduce |-> "nil", LimitSize |-> 0]

ZeroCfg == [DisableLZO |-> FALSE, DisableAutoReduce |-> FALSE]

\* scanAlpha (part_001:165-191)
scanAlpha(im) ==
    LET hasA == \E i \in UsedPal(im) : im.pal[i][4] < 255
    IN [hasAlpha |-> hasA,
        allHigh |-> \A i \in UsedPal(im) : im.pal[i][4] >= 240,
        isBinary |-> ~hasA \/ \A i \in UsedPal(im) : im.pal[i][4] \in {0, 255}]

\* a selection that takes DXT1 for fully opaque or binary alpha only
selectPaxTypeOpaqueOnly(stats, hint) ==
    CASE hint.Format = TexFormatDefault ->
             [err |-> "none",
              t |-> IF ~stats.hasAlpha \/ stats.isBinary THEN PaxDXT1 ELSE PaxDXT5]
      [] hint.Format = TexFormatDXT1 -> [err |-> "none", t |-> PaxDXT1]
      [] hint.Format = TexFormatDXT5 -> [err |-> "none", t |-> PaxDXT5]
      [] hint.Format = TexFormatARGB4444 -> [err |-> "none", t |-> PaxARGB4]
      [] hint.Format = TexFormatARGB1555 -> [err |-> "none", t |-> PaxARGBA5]
      [] hint.Format = TexFormatAI88 -> [err |-> "none", t |-> PaxGRAYA]
      [] OTHER -> [err |-> "UnsupportedFormat", t |-> 0]

\* selectPaxType (part_001:194-228); t = 0 with an error
selectPaxType(stats, hint) ==
    CASE hint.Format = TexFormatDefault ->
             [err |-> "none",
              t |-> IF stats.allHigh \/ ~stats.hasAlpha \/ stats.isBinary THEN PaxDXT1 ELSE PaxDXT5]
      [] hint.Format = TexFormatDXT1 -> [err |-> "none", t |-> PaxDXT1]
      [] hint.Format = TexFormatDXT5 -> [err |-> "none", t |-> PaxDXT5]
      [] hint.Format = TexFormatARGB4444 -> [err |-> "none", t |-> PaxARGB4]
      [] hint.Format = TexFormatARGB1555 -> [err |-> "none", t |-> PaxARGBA5]
      [] hint.Format = TexFormatAI88 -> [err |-> "none", t |-> PaxGRAYA]
      [] OTHER -> [err |-> "UnsupportedFormat", t |-> 0]

\* isDetailHint (part_001:361-368), isTexViewUnsupported (part_001:371-379)
isDetailHint(hint) == hint.ClassName \in {"detail", "detail_short"}

\* a policy that rejects the class TexRGBA8888 only
isTexViewUnsupportedOne(hint) == hint.ClassName = "TexRGBA8888"

isTexViewUnsupported(hint) == hint.ClassName \in {"TexRGBA8888", "ColorMapRaw", "layer_color_draft"}

\* alphaAndRGBRange (part_001:423-): minimum and maximum of alpha and of the
\* colour channels
MinOf(S) == CHOOSE m \in S : \A v \in S : m <= v
MaxOf(S) == CHOOSE m \in S : \A v \in S : v <= m
alphaAndRGBRange(im) ==
    IF UsedPal(im) = {} THEN [minA |-> 255, maxA |-> 0, minRGB |-> 255, maxRGB |-> 0]
    ELSE [minA |-> MinOf({im.pal[i][4] : i \in UsedPal(im)}),
          maxA |-> MaxOf({im.pal[i][4] : i \in UsedPal(im)}),
          minRGB |-> MinOf({im.pal[i][c] : i \in UsedPal(im), c \in 1 .. 3}),
          maxRGB |-> MaxOf({im.pal[i][c] : i \in UsedPal(im), c \in 1 .. 3})]

\* shouldSkipSwizzle (part_001:348-358)
shouldSkipSwizzle(im, hint) ==
    /\ ~hint.Swizzle.identity
    /\ hint.Swizzle.alphaForRGB
    /\ LET r == alphaAndRGBRange(im)
       IN r.minA = 255 /\ r.maxA = 255 /\ r.minRGB # r.maxRGB

\* promoteAlphaFromRGBIfNeeded (part_001:382-411)
promoteAlphaFromRGBIfNeeded(im, hint) ==
    LET r == alphaAndRGBRange(im) IN
    IF ~hint.Swizzle.alphaForRGB THEN im
    ELSE IF im.w <= 0 \/ im.h <= 0 THEN im
    ELSE IF r.minA # 255 \/ r.maxA # 255 THEN im
    ELSE IF r.minRGB = r.maxRGB THEN im
    ELSE [im EXCEPT !.pal = [i \in DOMAIN im.pal |->
              <<im.pal[i][1], im.pal[i][2], im.pal[i][3],
                (im.pal[i][1] + im.pal[i][2] + im.pal[i][3]) \div 3>>]]

\* autoReduceIfNeeded (part_001:231-270): the first generated level that fits
\* LimitSize.  The pixels of a reduced level are those of the input, which is
\* exact for the one-colour images this is applied to.
FirstFit(chain, limit) ==
    LET fits == {i \in 1 .. Len(chain) : chain[i][1] <= limit /\ chain[i][2] <= limit}
    IN IF fits = {} THEN 0 ELSE MinOf(fits)

autoReduceIfNeeded(im, hint, cfg) ==
    IF cfg.DisableAutoReduce \/ hint.AutoReduce # "true" THEN im
    ELSE IF im.w <= 0 \/ im.h <= 0 THEN im
    ELSE IF hint.LimitSize <= 0 THEN im
    ELSE IF Max(im.w, im.h) <= hint.LimitSize THEN im
    ELSE Bind(GenerateMipmaps(im.w, im.h), LAMBDA chain :
              IF FirstFit(chain, hint.LimitSize) = 0 THEN im
              ELSE [im EXCEPT !.w = chain[FirstFit(chain, hint.LimitSize)][1],
                              !.h = chain[FirstFit(chain, hint.LimitSize)][2]])

\* options with a GALF tag for every image, whatever its alpha
HintOptsGalfAlways(stats, hint, cfg, skipSwizzle, paxType) ==
    LET base == [ZeroOpts EXCEPT
                    !.Type = paxType,
                    !.UseLZO = isDXT(paxType) /\ ~cfg.DisableLZO,
                    !.ForceCXAMFull = isDXT(paxType) \/ paxType \in {PaxARGB4, PaxARGBA5, PaxARGB8},
                    !.ForceLZSS = (paxType = PaxARGB4)]
        writeTag == ~hint.Swizzle.identity /\ hint.VirtualSwz # "false"
        swz == IF hint.Swizzle.identity THEN base
               ELSE [base EXCEPT
                        !.WriteSwizzleTag = writeTag,
                        !.SwizzleTag = IF writeTag THEN hint.Swizzle.tag ELSE <<0, 0, 0, 0>>,
                        !.Swizzle = IF skipSwizzle THEN "nil" ELSE "set",
                        !.SkipSwizzle = skipSwizzle]
        galf == IF FALSE THEN swz
                ELSE [swz EXCEPT !.WriteGALF = TRUE,
                                 !.GALFValue = IF stats.isBinary THEN 2 ELSE 1]
    IN IF isDetailHint(hint) THEN [galf EXCEPT !.WriteGALF = TRUE, !.GALFValue = 2] ELSE galf

\* EncodeOptionsFromHint (part_001:58-155).  The error weights, the mip filter
\* and UseSRGB only change pixel values and are left out.
HintOpts(stats, hint, cfg, skipSwizzle, paxType) ==
    LET base == [ZeroOpts EXCEPT
                    !.Type = paxType,
                    !.UseLZO = isDXT(paxType) /\ ~cfg.DisableLZO,
                    !.ForceCXAMFull = isDXT(paxType) \/ paxType \in {PaxARGB4, PaxARGBA5, PaxARGB8},
                    !.ForceLZSS = (paxType = PaxARGB4)]
        writeTag == ~hint.Swizzle.identity /\ hint.VirtualSwz # "false"
        swz == IF hint.Swizzle.identity THEN base
               ELSE [base EXCEPT
                        !.WriteSwizzleTag = writeTag,
                        !.SwizzleTag = IF writeTag THEN hint.Swizzle.tag ELSE <<0, 0, 0, 0>>,
                        !.Swizzle = IF skipSwizzle THEN "nil" ELSE "set",
                        !.SkipSwizzle = skipSwizzle]
        galf == IF stats.allHigh THEN swz
                ELSE [swz EXCEPT !.WriteGALF = TRUE,
                                 !.GALFValue = IF stats.isBinary THEN 2 ELSE 1]
    IN IF isDetailHint(hint) THEN [galf EXCEPT !.WriteGALF = TRUE, !.GALFValue = 2] ELSE galf

EncodeOptionsFromHint(im, hint, cfg, skipSwizzle) ==
    LET stats == scanAlpha(im)
        sel == selectPaxType(stats, hint)
    IN IF isTexViewUnsupported(hint) THEN [err |-> "UnsupportedFormat", opts |-> NilOpts]
       ELSE IF hint.EnableDXT = "false"
               /\ hint.Format \notin {TexFormatARGB4444, TexFormatARGB1555, TexFormatAI88, TexFormatP8}
            THEN [err |-> "UnsupportedFormat", opts |-> NilOpts]
       ELSE IF sel.err # "none" THEN [err |-> sel.err, opts |-> NilOpts]
       ELSE IF ~hint.Swizzle.identity /\ hint.VirtualSwz # "false" /\ hint.Swizzle.tagErr
            THEN [err |-> "SwizzleExpr", opts |-> NilOpts]
       ELSE [err |-> "none", opts |-> HintOpts(stats, hint, cfg, skipSwizzle, sel.t)]

\* mergeBCnOptions (part_001:306-345)
mergeBCnOptions(dst, override) ==
    IF override.isNil THEN dst
    ELSE IF dst.isNil THEN override
    ELSE [dst EXCEPT
             !.RGBWeights = IF override.RGBWeights # "nil" THEN override.RGBWeights ELSE @,
             !.Refinement = IF override.Refinement # "nil" THEN override.Refinement ELSE @,
             !.QualityLevel = IF override.QualityLevel # 0 THEN override.QualityLevel ELSE @,
             !.Workers = IF override.Workers # 0 THEN override.Workers ELSE @,
             !.GenerateMipmaps = IF override.GenerateMipmaps THEN TRUE ELSE @,
             !.UseSRGB = IF override.UseSRGB THEN TRUE ELSE @,
             !.AlphaThreshold = IF override.AlphaThreshold # 0 THEN override.AlphaThreshold ELSE @]

\* overrides that also carry the caller's Type and UseLZO over
applyEncodeOverridesWithType(dst, override) ==
    IF override.isNil \/ dst.isNil THEN dst
    ELSE [dst EXCEPT
             !.BCn = IF override.BCn.isNil THEN @ ELSE mergeBCnOptions(@, override.BCn),
             !.Type = IF override.Type # 0 THEN override.Type ELSE @,
             !.UseLZO = override.UseLZO,
             !.SkipSwizzle = IF override.SkipSwizzle THEN TRUE ELSE dst.SkipSwizzle,
             !.Swizzle = IF override.SkipSwizzle THEN "nil" ELSE dst.Swizzle,
             !.ForceCXAMFull = override.ForceCXAMFull,
             !.ForceLZSS = IF override.ForceLZSS THEN TRUE ELSE dst.ForceLZSS]

\* applyEncodeOverrides (part_001:273-291)
applyEncodeOverrides(dst, override) ==
    IF override.isNil \/ dst.isNil THEN dst
    ELSE [dst EXCEPT
             !.BCn = IF override.BCn.isNil THEN @ ELSE mergeBCnOptions(@, override.BCn),
             !.SkipSwizzle = IF override.SkipSwizzle THEN TRUE ELSE dst.SkipSwizzle,
             !.Swizzle = IF override.SkipSwizzle THEN "nil" ELSE dst.Swizzle,
             !.ForceCXAMFull = override.ForceCXAMFull,
             !.ForceLZSS = IF override.ForceLZSS THEN TRUE ELSE dst.ForceLZSS]

\* EncodeWithTexConfigOptions (part_001:21-55), up to the call of
\* EncodeWithOptions: the image and the options it passes on
TexConfigArgs(im, hint, cfg, override) ==
    IF ~hint.ok
    THEN [err |-> "none", img |-> im,
          opts |-> applyEncodeOverrides(
                       [ZeroOpts EXCEPT !.UseLZO = ~cfg.DisableLZO,
                                        !.ForceCXAMFull = isDXT(ZeroOpts.Type) \/ ZeroOpts.Type = 0],
                       override)]
    ELSE Bind(shouldSkipSwizzle(im, hint), LAMBDA skipSwizzle :
         Bind(autoReduceIfNeeded(IF skipSwizzle THEN im ELSE promoteAlphaFromRGBIfNeeded(im, hint),
                                 hint, cfg), LAMBDA im2 :
         Bind(EncodeOptionsFromHint(im2, hint, cfg, skipSwizzle), LAMBDA r :
              IF r.err # "none" THEN [err |-> r.err, img |-> im, opts |-> NilOpts]
              ELSE [err |-> "none", img |-> im2,
                    opts |-> applyEncodeOverrides(r.opts, override)])))

----------------------------------------------------------------------------
(* Parts of a file.  len is the number of bytes the part occupies, at the   *)
(* number of bytes of the file before it.                                  *)

Part(kind, len) ==
    [kind |-> kind, len |-> len, at |-> 0, name |-> "", size |-> 0, payload |-> <<>>,
     wf |-> 0, hf |-> 0, lf |-> 0, enc |-> "", rawlen |-> 0]

MagicPart(bytes) == [Part("magic", 2) EXCEPT !.payload = bytes]

\* writeTag (write.go:248-262): "GGAT", name, uint32 length, payload.
\* bytesPer is the number of bytes one payload element stands for.
TagPart(name, payload, bytesPer) ==
    [Part("tag", 12 + bytesPer * Len(payload)) EXCEPT
        !.name = name, !.size = bytesPer * Len(payload), !.payload = payload]

ZeroPart(n) == Part("zeros", n)

\* write.go:325-355: one mip block as stored: uint16 width with the LZO flag,
\* uint16 height, 3-byte length, payload
MipPart(m) ==
    [Part("mip", 2 + 2 + 3 + m.dlen) EXCEPT
        !.wf = (IF m.useLZ THEN m.w + 32768 ELSE m.w) % U16,
        !.hf = m.h % U16,
        !.lf = m.dlen % U24,
        !.enc = m.enc,
        !.rawlen = m.rawlen]

\* write.go:321-339: the dimension checks made before a mip block is written
MipDimErr(m) ==
    IF m.w < 0 \/ m.h < 0 THEN "InvalidDimensions"
    ELSE IF m.useLZ /\ m.w > 32767 THEN "InvalidDimensions"
    ELSE IF ~m.useLZ /\ m.w > 65535 THEN "InvalidDimensions"
    ELSE IF m.h > 65535 THEN "InvalidDimensions"
    ELSE "none"

\* number of bytes of f
FileLen(f) == IF f = <<>> THEN 0 ELSE f[Len(f)].at + f[Len(f)].len

\* number of bytes of f before part i
StartOf(f, i) == IF i <= Len(f) THEN f[i].at ELSE FileLen(f)

\* f with part p written at its end
WritePart(f, p) == Append(f, [p EXCEPT !.at = FileLen(f)])

\* indices of the mip blocks of f, in file order
MipIndices(f) == {i \in 1 .. Len(f) : f[i].kind = "mip"}
NthMip(f, n) == CHOOSE i \in MipIndices(f) : Cardinality({j \in MipIndices(f) : j <= i}) = n

\* an order of writes with ZIWS before GALF
NextPartSwapped(p, wg, wz, nmips, written) ==
    CASE p = "magic" -> "CGVA"
      [] p = "CGVA" -> "CXAM"
      [] p = "CXAM" -> IF wz THEN "ZIWS" ELSE IF wg THEN "GALF" ELSE "SFFO"
      [] p = "ZIWS" -> IF wg THEN "GALF" ELSE "SFFO"
      [] p = "GALF" -> "SFFO"
      [] p = "SFFO" -> "sentinel"
      [] p = "sentinel" -> IF nmips > 0 THEN "mip" ELSE "pad"
      [] p = "mip" -> IF written < nmips THEN "mip" ELSE "pad"
      [] OTHER -> "done"

\* the order of the writes (write.go:242-361): the part written after part p
NextPart(p, wg, wz, nmips, written) ==
    CASE p = "magic" -> "CGVA"
      [] p = "CGVA" -> "CXAM"
      [] p = "CXAM" -> IF wg THEN "GALF" ELSE IF wz THEN "ZIWS" ELSE "SFFO"
      [] p = "GALF" -> IF wz THEN "ZIWS" ELSE "SFFO"
      [] p = "ZIWS" -> "SFFO"
      [] p = "SFFO" -> "sentinel"
      [] p = "sentinel" -> IF nmips > 0 THEN "mip" ELSE "pad"
      [] p = "mip" -> IF written < nmips THEN "mip" ELSE "pad"
      [] OTHER -> "done"

----------------------------------------------------------------------------
(* Readers (read_shared.go, mip_map.go, read.go, DecodeMetadata)           *)

\* error of io.ReadFull / binary.Read when want > 0 bytes are asked for and
\* have bytes are left: io.EOF when nothing is left, io.ErrUnexpectedEOF when
\* the input ends inside the value
ReadErr(have, want) ==
    IF have >= want THEN "none" ELSE IF have <= 0 THEN "EOF" ELSE "UnexpectedEOF"

\* readPaxType (read_shared.go:27-39)
readPaxType(f) ==
    IF FileLen(f) < 2 THEN [err |-> ReadErr(FileLen(f), 2), pType |-> 0]
    ELSE LET t == IF f[1].kind = "magic" THEN PaxTypeFromBytes(f[1].payload) ELSE 0
         IN IF t = 0 THEN [err |-> "InvalidMagic", pType |-> 0]
            ELSE [err |-> "none", pType |-> t]

\* the map of tags: a function from the names read to [payload, size]
PutTag(tags, name, v) ==
    [n \in DOMAIN tags \cup {name} |-> IF n = name THEN v ELSE tags[n]]

\* error of reading the tag stored in part p, whose signature was read
\* (read_shared.go:54-67): name, length, payload in turn
TagReadErr(p) ==
    LET body == p.len - 4 IN
    IF body < 4 THEN ReadErr(body, 4)
    ELSE IF body < 8 THEN ReadErr(body - 4, 4)
    ELSE ReadErr(body - 8, p.size)

\* readGGATTags (read_shared.go:41-73), reading from part i on.  Parts of kind
\* "tag" start with the signature GGAT, and so does a part of kind "wrap": the
\* 12 leading bytes of a complete tag whose payload is the part that follows.
RECURSIVE readGGATTags(_, _, _)
readGGATTags(f, i, tags) ==
    LET left == FileLen(f) - StartOf(f, i) IN
    IF left < 4 THEN [err |-> ReadErr(left, 4), tags |-> tags]
    ELSE IF f[i].kind = "wrap" /\ i < Len(f) /\ f[i + 1].len = f[i].size
         THEN Bind(PutTag(tags, f[i].name, [payload |-> <<>>, size |-> f[i].size]),
                   LAMBDA read : readGGATTags(f, i + 2, read))
    ELSE IF f[i].kind # "tag" THEN [err |-> "none", tags |-> tags]
    ELSE IF TagReadErr(f[i]) # "none" THEN [err |-> TagReadErr(f[i]), tags |-> tags]
    ELSE Bind(PutTag(tags, f[i].name, [payload |-> f[i].payload, size |-> f[i].size]),
              LAMBDA read : readGGATTags(f, i + 1, read))

\* sffoOffsets (read_shared.go:75-97): the non-zero entries of SFFO.  The
\* payload of an SFFO part is kept as its 32-bit entries.
NonZero(s) == SelectSeq(s, LAMBDA v : v # 0)

sffoOffsets(tags) ==
    IF "SFFO" \notin DOMAIN tags THEN [err |-> "MissingSFFO", offsets |-> <<>>]
    ELSE LET nz == NonZero(tags["SFFO"].payload)
         IN IF Len(nz) = 0 THEN [err |-> "MissingSFFO", offsets |-> <<>>]
            ELSE [err |-> "none", offsets |-> nz]

\* the part that starts at byte offset off (0 when none does)
PartAt(f, off) ==
    IF \E i \in 1 .. Len(f) : StartOf(f, i) = off
    THEN CHOOSE i \in 1 .. Len(f) : StartOf(f, i) = off
    ELSE 0

NoMip == [err |-> "none", isNil |-> TRUE, Width |-> 0, Height |-> 0, branch |-> "", intact |-> FALSE]

\* a reader that looks at bit 15 of the width before it compares the lengths
readMipMapAtFlagFirst(f, i, left, paxType, g) ==
    IF left < 4 THEN [NoMip EXCEPT !.err = ReadErr(IF left < 2 THEN left ELSE left - 2, 2)]
    ELSE IF i = 0 \/ f[i].kind # "mip" THEN [NoMip EXCEPT !.err = "Unaligned"]
    ELSE LET w == f[i].wf
             h == f[i].hf
             lzoFlag == isDXT(paxType) /\ w >= 32768
             width == IF lzoFlag THEN w % 32768 ELSE w
             storedSize == f[i].lf
             whole == storedSize = f[i].len - 7
             expectedRaw == expectedMipSize(paxType, width, h)
             mm == [NoMip EXCEPT !.isNil = FALSE, !.Width = width, !.Height = h]
         IN
         IF w = 0 /\ h = 0 THEN NoMip
         ELSE IF left - 4 < 3 THEN [NoMip EXCEPT !.err = ReadErr(left - 4, 3)]
         ELSE IF storedSize > 0 /\ left - 7 < storedSize
              THEN [NoMip EXCEPT !.err = ReadErr(left - 7, storedSize)]
         ELSE IF expectedRaw < 0 THEN [NoMip EXCEPT !.err = "UnsupportedPixelFmt"]
         ELSE IF storedSize = expectedRaw /\ ~lzoFlag
              THEN [mm EXCEPT !.branch = "raw", !.intact = (f[i].enc = "raw" /\ whole)]
         ELSE IF isDXT(paxType)
              THEN IF ~lzoFlag THEN [NoMip EXCEPT !.err = "InsufficientData"]
                   ELSE IF f[i].enc = "lzo" /\ whole /\ f[i].rawlen = expectedRaw
                        THEN [mm EXCEPT !.branch = "lzo", !.intact = TRUE]
                   ELSE IF g = "fail" THEN [NoMip EXCEPT !.err = "LZODecompress"]
                   ELSE [mm EXCEPT !.branch = "lzo"]
         ELSE IF f[i].enc = "lzss" /\ whole /\ f[i].rawlen = expectedRaw
              THEN [mm EXCEPT !.branch = "lzss", !.intact = TRUE]
         ELSE IF g = "fail" THEN [NoMip EXCEPT !.err = "LZSSDecompress"]
         ELSE [mm EXCEPT !.branch = "lzss"]


\* readMipMap (mip_map.go:26-93) after a seek to off.  g is the behaviour of
\* the external decompressors on a payload that is not a complete stream of
\* theirs for the expected size: "fail" (an error) or "pass" (some output).
\* intact: Data is the payload the block was built from.
readMipMapAt(f, i, left, paxType, g) ==
    IF left < 4 THEN [NoMip EXCEPT !.err = ReadErr(IF left < 2 THEN left ELSE left - 2, 2)]
    ELSE IF i = 0 \/ f[i].kind # "mip" THEN [NoMip EXCEPT !.err = "Unaligned"]
    ELSE LET w == f[i].wf
             h == f[i].hf
             lzoFlag == isDXT(paxType) /\ w >= 32768
             width == IF lzoFlag THEN w % 32768 ELSE w
             storedSize == f[i].lf
             whole == storedSize = f[i].len - 7
             expectedRaw == expectedMipSize(paxType, width, h)
             mm == [NoMip EXCEPT !.isNil = FALSE, !.Width = width, !.Height = h]
         IN
         IF w = 0 /\ h = 0 THEN NoMip
         ELSE IF left - 4 < 3 THEN [NoMip EXCEPT !.err = ReadErr(left - 4, 3)]
         ELSE IF storedSize > 0 /\ left - 7 < storedSize
              THEN [NoMip EXCEPT !.err = ReadErr(left - 7, storedSize)]
         ELSE IF expectedRaw < 0 THEN [NoMip EXCEPT !.err = "UnsupportedPixelFmt"]
         ELSE IF storedSize = expectedRaw
              THEN [mm EXCEPT !.branch = "raw", !.intact = (f[i].enc = "raw" /\ whole)]
         ELSE IF isDXT(paxType)
              THEN IF ~lzoFlag THEN [NoMip EXCEPT !.err = "InsufficientData"]
                   ELSE IF f[i].enc = "lzo" /\ whole /\ f[i].rawlen = expectedRaw
                        THEN [mm EXCEPT !.branch = "lzo", !.intact = TRUE]
                   ELSE IF g = "fail" THEN [NoMip EXCEPT !.err = "LZODecompress"]
                   ELSE [mm EXCEPT !.branch = "lzo"]
         ELSE IF f[i].enc = "lzss" /\ whole /\ f[i].rawlen = expectedRaw
              THEN [mm EXCEPT !.branch = "lzss", !.intact = TRUE]
         ELSE IF g = "fail" THEN [NoMip EXCEPT !.err = "LZSSDecompress"]
         ELSE [mm EXCEPT !.branch = "lzss"]

readMipMap(f, off, paxType, g) ==
    Bind(PartAt(f, off), LAMBDA i : readMipMapAt(f, i, FileLen(f) - off, paxType, g))

\* the loop over the SFFO offsets in DecodePAA (read.go:103-119)
RECURSIVE ReadMips(_, _, _, _, _, _)
ReadMips(f, offsets, k, paxType, g, acc) ==
    IF k > Len(offsets) THEN [err |-> "none", MipMaps |-> acc]
    ELSE Bind(readMipMap(f, offsets[k], paxType, g), LAMBDA mm :
              IF mm.err # "none" THEN [err |-> mm.err, MipMaps |-> <<>>]
              ELSE ReadMips(f, offsets, k + 1, paxType, g,
                            IF mm.isNil THEN acc ELSE Append(acc, mm)))

NoTags == [n \in {} |-> 0]
NoPAA == [err |-> "none", Type |-> 0, Taggs |-> NoTags, MipMaps |-> <<>>]

\* DecodePAA (read.go:75-121)
DecodePAA(f, g) ==
    Bind(readPaxType(f), LAMBDA t :
    IF t.err # "none" THEN [NoPAA EXCEPT !.err = t.err]
    ELSE Bind(readGGATTags(f, 2, NoTags), LAMBDA tg :
    IF tg.err # "none" THEN [NoPAA EXCEPT !.err = tg.err]
    ELSE Bind(sffoOffsets(tg.tags), LAMBDA so :
    IF so.err # "none" THEN [NoPAA EXCEPT !.err = so.err]
    ELSE Bind(ReadMips(f, so.offsets, 1, t.pType, g, <<>>), LAMBDA ms :
    IF ms.err # "none" THEN [NoPAA EXCEPT !.err = ms.err]
    ELSE [err |-> "none", Type |-> t.pType, Taggs |-> tg.tags, MipMaps |-> ms.MipMaps]))))

\* MipMap.Image (mip_map.go:117-142): the error of decoding the first mip
ImageErr(m, paxType) ==
    IF m.Width <= 0 \/ m.Height <= 0 \/ expectedMipSize(paxType, m.Width, m.Height) = 0
    THEN "InsufficientData" ELSE "none"

NoImage == [err |-> "none", Width |-> 0, Height |-> 0]

\* Decode / DecodeWithOptions (read.go:11-33): the size of the image returned
DecodedImage(p, checked) ==
    IF p.err # "none" THEN [NoImage EXCEPT !.err = p.err]
    ELSE IF Len(p.MipMaps) = 0 THEN [NoImage EXCEPT !.err = "NoMipmaps"]
    ELSE IF checked /\ ImageErr(p.MipMaps[1], p.Type) # "none"
         THEN [NoImage EXCEPT !.err = ImageErr(p.MipMaps[1], p.Type)]
    ELSE [err |-> "none", Width |-> p.MipMaps[1].Width, Height |-> p.MipMaps[1].Height]

Decode(f, g) == Bind(DecodePAA(f, g), LAMBDA p : DecodedImage(p, TRUE))

\* DecodeConfig (read.go:35-53): the size of the first mip, which is not decoded
DecodeConfig(f, g) == Bind(DecodePAA(f, g), LAMBDA p : DecodedImage(p, FALSE))

\* a header reader that takes no format as DXT, so that it never masks bit 15
isDXTPaxTypeNever(t) == FALSE

\* isDXTPaxType (part_005:94-101)
isDXTPaxType(t) == t \in {PaxDXT1, PaxDXT2, PaxDXT3, PaxDXT4, PaxDXT5}

\* one pass of the header loop of DecodeMetadata (part_005:60-88)
readMipHeader(f, i, off, paxType) ==
    LET left == FileLen(f) - off IN
    IF left < 4 THEN [err |-> ReadErr(IF left < 2 THEN left ELSE left - 2, 2), isNil |-> TRUE,
                      Width |-> 0, Height |-> 0, Offset |-> off]
    ELSE IF i = 0 \/ f[i].kind # "mip"
         THEN [err |-> "Unaligned", isNil |-> TRUE, Width |-> 0, Height |-> 0, Offset |-> off]
    ELSE [err |-> "none", isNil |-> f[i].wf = 0 /\ f[i].hf = 0,
          Width |-> IF isDXTPaxType(paxType) /\ f[i].wf >= 32768 THEN f[i].wf % 32768 ELSE f[i].wf,
          Height |-> f[i].hf, Offset |-> off]

RECURSIVE ReadHeaders(_, _, _, _, _)
ReadHeaders(f, offsets, k, paxType, acc) ==
    IF k > Len(offsets) THEN [err |-> "none", MipHeaders |-> acc]
    ELSE Bind(readMipHeader(f, PartAt(f, offsets[k]), offsets[k], paxType), LAMBDA mh :
              IF mh.err # "none" THEN [err |-> mh.err, MipHeaders |-> <<>>]
              ELSE ReadHeaders(f, offsets, k + 1, paxType,
                               IF mh.isNil THEN acc
                               ELSE Append(acc, [Width |-> mh.Width, Height |-> mh.Height,
                                                 Offset |-> mh.Offset])))

NoMetadata == [err |-> "none", Type |-> 0, MipHeaders |-> <<>>]

\* DecodeMetadata (part_005:32-91)
DecodeMetadata(f) ==
    Bind(readPaxType(f), LAMBDA t :
    IF t.err # "none" THEN [NoMetadata EXCEPT !.err = t.err]
    ELSE Bind(readGGATTags(f, 2, NoTags), LAMBDA tg :
    IF tg.err # "none" THEN [NoMetadata EXCEPT !.err = tg.err]
    ELSE Bind(sffoOffsets(tg.tags), LAMBDA so :
    IF so.err # "none" THEN [NoMetadata EXCEPT !.err = so.err]
    ELSE Bind(ReadHeaders(f, so.offsets, 1, t.pType, <<>>), LAMBDA hs :
    IF hs.err # "none" THEN [NoMetadata EXCEPT !.err = hs.err]
    ELSE [err |-> "none", Type |-> t.pType, MipHeaders |-> hs.MipHeaders]))))

----------------------------------------------------------------------------
(* Inputs                                                                  *)

\* bounds of the model
MaxPixels == 4194304
MaxPalLen == 2
MaxMipCountOpt == 3

PxWhite == <<255, 255, 255, 255>>
PxA == <<10, 20, 200, 255>>
PxB == <<13, 23, 200, 254>>
PxClear == <<0, 0, 0, 0>>
Pixels == {PxWhite, PxA, PxB, PxClear}

\* sizes around the limits of the stored fields: 0x7fff / 0x8000 (LZO flag
\* bit), 0xffff / 0x10000 (uint16), 2048 x 2048 (2^24 bytes at 4 bytes per
\* pixel, the limit of the 3-byte length)
DimChoices ==
    {<<1, 1>>, <<4, 4>>, <<8, 8>>, <<64, 64>>, <<2048, 2048>>,
     <<32767, 1>>, <<32768, 1>>, <<65535, 1>>, <<65536, 1>>, <<1, 65535>>, <<1, 65536>>}
LayoutDims == {d \in DimChoices : d[1] <= MaxPixels \div d[2]}
LayoutImages == {[w |-> d[1], h |-> d[2], pal |-> <<p>>] : d \in LayoutDims, p \in {PxWhite, PxB}}

StatDims == {<<1, 1>>, <<3, 1>>, <<2, 2>>}
Palettes == UNION {[1 .. k -> Pixels] : k \in 1 .. MaxPalLen}
StatImages == {[w |-> d[1], h |-> d[2], pal |-> p] : d \in StatDims, p \in Palettes}

CompressOpts ==
    {[ZeroOpts EXCEPT !.Type = t, !.UseLZO = l, !.ForceLZSS = f] :
        t \in {0, PaxDXT1, PaxDXT5, PaxARGB4, PaxARGB8}, l \in BOOLEAN, f \in BOOLEAN}
MipOpts ==
    {[ZeroOpts EXCEPT !.Type = t, !.GenerateMipmaps = g, !.MaxMipCount = mc, !.MinMipSize = ms] :
        t \in {0, PaxARGB4}, g \in {"nil", "true", "false"},
        mc \in {0, MaxMipCountOpt}, ms \in {0, 1, 8}}
TagOpts ==
    {[ZeroOpts EXCEPT !.WriteGALF = wg, !.GALFValue = gv, !.WriteSwizzleTag = ws,
                      !.WriteNohqSwizzleTag = wn, !.SwizzleTag = <<8, 0, 0, 0>>] :
        wg \in BOOLEAN, gv \in {0, 2}, ws \in BOOLEAN, wn \in BOOLEAN}
StatOpts ==
    {[ZeroOpts EXCEPT !.Type = t, !.NormalMapSwizzle = n, !.ForceCXAMFull = c] :
        t \in {0, 2, PaxDXT1, PaxDXT3, PaxDXT5, PaxGRAYA, PaxARGBA5},
        n \in BOOLEAN, c \in BOOLEAN}

\* calls of Encode (nil options) and EncodeWithOptions
DirectCall(o) ==
    [entry |-> IF o.isNil THEN "Encode" ELSE "EncodeWithOptions",
     hint |-> NoHint, cfg |-> ZeroCfg, override |-> NilOpts]
DirectInputs ==
    (LayoutImages \X ({NilOpts} \cup CompressOpts \cup MipOpts \cup TagOpts))
    \cup (StatImages \X ({NilOpts} \cup StatOpts))

\* calls of EncodeWithTexConfigOptions
PxHalf == <<90, 60, 30, 128>>
TexDims == {<<16, 16>>}
TexPalettes == {<<PxWhite>>, <<PxA>>, <<PxB>>, <<PxClear, PxWhite>>, <<PxA, PxHalf>>}
TexImages == {[w |-> d[1], h |-> d[2], pal |-> p] : d \in TexDims, p \in TexPalettes}
\* swizzles: alpha spread over the colours, one with a source that is no
\* channel, a cycle of the colours, negated red, red and alpha exchanged
AlphaSwz == Swz(Sel(SwizzleA), Sel(SwizzleA), Sel(SwizzleA), Const(255))
BadSwz == Swz(Sel(4), ZeroExpr, ZeroExpr, ZeroExpr)
CycleSwz == Swz(Sel(SwizzleG), Sel(SwizzleB), Sel(SwizzleR), ZeroExpr)
NegSwz == Swz(Neg(SwizzleR), ZeroExpr, ZeroExpr, ZeroExpr)
Hints ==
    {NoHint}
    \cup {[NoHint EXCEPT !.ok = TRUE, !.Format = f, !.EnableDXT = e] :
             f \in {TexFormatDefault, TexFormatP8, TexFormatARGB4444, TexFormatARGB1555,
                    TexFormatAI88, TexFormatDXT1, TexFormatDXT2, TexFormatDXT3,
                    TexFormatDXT4, TexFormatDXT5},
             e \in {"nil", "false", "true"}}
    \cup {[NoHint EXCEPT !.ok = TRUE, !.ClassName = c] :
             c \in {"detail", "TexRGBA8888", "ColorMapRaw", "layer_color_draft"}}
    \cup {[NoHint EXCEPT !.ok = TRUE, !.Swizzle = z, !.VirtualSwz = v] :
             z \in {AlphaSwz, BadSwz, CycleSwz, NegSwz},
             v \in {"nil", "false", "true"}}
    \cup {[NoHint EXCEPT !.ok = TRUE, !.AutoReduce = "true", !.LimitSize = l] : l \in {0, 4, 8}}
Cfgs == {[ZeroCfg EXCEPT !.DisableLZO = l, !.DisableAutoReduce = r] :
            <<l, r>> \in {<<FALSE, FALSE>>, <<TRUE, FALSE>>, <<FALSE, TRUE>>}}
Overrides ==
    {NilOpts} \cup {[ZeroOpts EXCEPT !.ForceCXAMFull = c, !.ForceLZSS = f, !.SkipSwizzle = k] :
                       <<c, f, k>> \in {<<FALSE, FALSE, FALSE>>, <<TRUE, FALSE, FALSE>>,
                                        <<FALSE, TRUE, FALSE>>, <<TRUE, TRUE, TRUE>>}}
TexCalls ==
    {[entry |-> "EncodeWithTexConfigOptions", hint |-> h, cfg |-> c, override |-> o] :
        h \in Hints, c \in Cfgs, o \in Overrides}

NoHdr == [paxType |-> 0, writeGALF |-> FALSE, writeZIWS |-> FALSE]

\* no call of the resolver is running; package texconfig is not in use
NoResolve == [pc |-> "idle"]
NoDefault == [pc |-> "idle"]
NoSwizzle == [pc |-> "idle"]
NoDec == [api |-> "none", err |-> "none", Type |-> 0, dims |-> <<>>, offsets |-> <<>>]

----------------------------------------------------------------------------
(* EncodeWithOptions as a step machine                                     *)

Init ==
    /\ \/ /\ \E in \in DirectInputs : img = in[1] /\ opts = in[2] /\ call = DirectCall(in[2])
          /\ pc = "prepare"
       \/ /\ img \in TexImages
          /\ call \in TexCalls
          /\ opts = NilOpts
          /\ pc = "resolve"
    /\ mips = <<>>
    /\ hdr = NoHdr
    /\ mi = 1
    /\ out = <<>>
    /\ err = "none"
    /\ dec = NoDec
    /\ rs = NoResolve
    /\ cf = NoDefault
    /\ sw = NoSwizzle

\* EncodeWithTexConfigOptions (part_001:21-55) up to the call of EncodeWithOptions
ResolveOptions ==
    /\ pc = "resolve"
    /\ \E a \in {TexConfigArgs(img, call.hint, call.cfg, call.override)} :
          \/ /\ a.err # "none"
             /\ pc' = "failed"
             /\ err' = a.err
             /\ UNCHANGED <<img, opts>>
          \/ /\ a.err = "none"
             /\ pc' = "prepare"
             /\ img' = a.img
             /\ opts' = a.opts
             /\ err' = err
    /\ UNCHANGED <<rs, cf, sw, call, mips, hdr, mi, out, dec>>

\* EncodeWithOptions (write.go:26-240): statistics, format, mip chain, payloads.
\* The second branch is an error returned by bcn.EncodeImageWithOptions,
\* lzo.Compress or lzss.Compress.
Prepare ==
    /\ pc = "prepare"
    /\ \E t \in {ChosenPaxType(opts, hasAlpha(img))} :
       \E levels \in {MipImages(opts, t, img)} :
       \E perr \in {PayloadErr(t, levels[1][1], levels[1][2])} :
          \/ /\ perr # "none"
             /\ pc' = "failed"
             /\ err' = perr
             /\ UNCHANGED <<mips, hdr>>
          \/ /\ perr = "none"
             /\ pc' = "failed"
             /\ err' = "ExternalError"
             /\ UNCHANGED <<mips, hdr>>
          \/ /\ perr = "none"
             /\ \E b \in LzBehaviours :
                    mips' = [i \in 1 .. Len(levels) |->
                                MakeMipBlock(opts, t, b, levels[i][1], levels[i][2])]
             /\ hdr' = [paxType |-> t, writeGALF |-> WritesGALF(opts, t),
                        writeZIWS |-> WritesZIWS(opts)]
             /\ pc' = "magic"
             /\ err' = err
    /\ UNCHANGED <<rs, cf, sw, call, img, opts, mi, out, dec>>

\* one successful write of part p, followed by the move to the next part
Emit(p, part) ==
    /\ pc = p
    /\ out' = WritePart(out, part)
    /\ pc' = NextPart(p, hdr.writeGALF, hdr.writeZIWS, Len(mips),
                      Cardinality(MipIndices(out')))
    /\ UNCHANGED <<rs, cf, sw, call, img, opts, mips, hdr, err, dec>>

WriteMagic == Emit("magic", MagicPart(Bytes(hdr.paxType))) /\ mi' = mi
WriteCGVA == Emit("CGVA", TagPart("CGVA", CgvaPayload(img), 1)) /\ mi' = mi
WriteCXAM == Emit("CXAM", TagPart("CXAM", CxamPayload(opts, hdr.paxType, img), 1)) /\ mi' = mi
WriteGALF == Emit("GALF", TagPart("GALF", <<GalfValue(opts), 0, 0, 0>>, 1)) /\ mi' = mi
WriteZIWS == Emit("ZIWS", TagPart("ZIWS", ZiwsTag(opts), 1)) /\ mi' = mi
WriteSFFO ==
    Emit("SFFO", TagPart("SFFO", SffoTable(mips, hdr.writeGALF, hdr.writeZIWS), 4)) /\ mi' = mi
WriteSentinel == Emit("sentinel", ZeroPart(2)) /\ mi' = mi
WritePadding == Emit("pad", ZeroPart(6)) /\ mi' = mi

\* write.go:319-356: one pass of the loop over mips
WriteMip ==
    /\ pc = "mip"
    /\ mi <= Len(mips)
    /\ \/ /\ MipDimErr(mips[mi]) # "none"
          /\ pc' = "failed"
          /\ err' = MipDimErr(mips[mi])
          /\ UNCHANGED <<rs, cf, sw, call, img, opts, mips, hdr, mi, out, dec>>
       \/ /\ MipDimErr(mips[mi]) = "none"
          /\ Emit("mip", MipPart(mips[mi]))
          /\ mi' = mi + 1

\* w.Write returns an error: the encoder returns it
WriterFails ==
    /\ pc \in {"magic", "CGVA", "CXAM", "GALF", "ZIWS", "SFFO", "sentinel", "mip", "pad"}
    /\ pc' = "failed"
    /\ err' = "WriterError"
    /\ UNCHANGED <<rs, cf, sw, call, img, opts, mips, hdr, mi, out, dec>>

----------------------------------------------------------------------------
(* The readers run on the file a successful encode wrote                   *)

GarbageBehaviours == {"fail", "pass"}

Dims(ms) == [i \in 1 .. Len(ms) |-> <<ms[i].Width, ms[i].Height>>]

Decoded(api, r) ==
    /\ pc' = "decoded"
    /\ dec' = [NoDec EXCEPT !.api = api, !.err = r.err, !.Type = r.Type,
                            !.dims = r.dims, !.offsets = r.offsets]
    /\ UNCHANGED <<rs, cf, sw, call, img, opts, mips, hdr, mi, out, err>>

ImageDims(r) == IF r.err = "none" THEN << <<r.Width, r.Height>> >> ELSE <<>>

RunDecodePAA ==
    /\ pc = "done"
    /\ \E g \in GarbageBehaviours :
           \E p \in {DecodePAA(out, g)} :
              Decoded("DecodePAA", [err |-> p.err, Type |-> p.Type,
                                    dims |-> Dims(p.MipMaps), offsets |-> <<>>])

RunDecode ==
    /\ pc = "done"
    /\ \E g \in GarbageBehaviours :
           \E r \in {Decode(out, g)} :
              Decoded("Decode", [err |-> r.err, Type |-> 0, dims |-> ImageDims(r),
                                 offsets |-> <<>>])

RunDecodeConfig ==
    /\ pc = "done"
    /\ \E g \in GarbageBehaviours :
           \E r \in {DecodeConfig(out, g)} :
              Decoded("DecodeConfig", [err |-> r.err, Type |-> 0, dims |-> ImageDims(r),
                                       offsets |-> <<>>])

RunDecodeMetadata ==
    /\ pc = "done"
    /\ \E m \in {DecodeMetadata(out)} :
           Decoded("DecodeMetadata",
                   [err |-> m.err, Type |-> m.Type, dims |-> Dims(m.MipHeaders),
                    offsets |-> [i \in 1 .. Len(m.MipHeaders) |-> m.MipHeaders[i].Offset]])

Next ==
    \/ ResolveOptions
    \/ Prepare
    \/ WriteMagic
    \/ WriteCGVA
    \/ WriteCXAM
    \/ WriteGALF
    \/ WriteZIWS
    \/ WriteSFFO
    \/ WriteSentinel
    \/ WriteMip
    \/ WritePadding
    \/ WriterFails
    \/ RunDecodePAA
    \/ RunDecode
    \/ RunDecodeConfig
    \/ RunDecodeMetadata

Spec == Init /\ [][Next]_vars

----------------------------------------------------------------------------
(* The readers on arbitrary inputs: a magic, a tag stream and a tail       *)

MaxTags == 2

DecMagics == {Bytes(PaxDXT1), Bytes(PaxARGB4), <<0, 0>>}

\* SFFO stands for a table that names the mip blocks of the file (the end of
\* the file when there is none), SFFO0 for a table of zeros
TagChoices == {"CGVA", "GALF", "SFFO0", "SFFO"}
TagSeqs == UNION {[1 .. n -> TagChoices] : n \in 0 .. MaxTags}

\* a tag cut short by the end of the input: inside its name, inside its
\* length, inside its payload
CutTag(len) == [Part("tag", len) EXCEPT !.name = IF len >= 8 THEN "CGVA" ELSE "", !.size = 4]

OneMip == MipPart([w |-> 4, h |-> 4, useLZ |-> FALSE, comp |-> 0, dlen |-> 8,
                   enc |-> "raw", rawlen |-> 8])
\* a DXT1 block of 8x4 stored LZO-compressed, and the (0,0) dummy block
LzoMip == MipPart([w |-> 8, h |-> 4, useLZ |-> TRUE, comp |-> 5, dlen |-> 5,
                   enc |-> "lzo", rawlen |-> 16])
DummyMip == MipPart([w |-> 0, h |-> 0, useLZ |-> FALSE, comp |-> 0, dlen |-> 0,
                     enc |-> "raw", rawlen |-> 0])

\* 8x4 blocks of 5 bytes that are no LZO stream, with bit 15 of the width
\* clear and set, and a raw 4x4 DXT1 block with bit 15 of the width set
ShortMip == MipPart([w |-> 8, h |-> 4, useLZ |-> FALSE, comp |-> 0, dlen |-> 5,
                     enc |-> "raw", rawlen |-> 5])
BadLzoMip == MipPart([w |-> 8, h |-> 4, useLZ |-> TRUE, comp |-> 0, dlen |-> 5,
                      enc |-> "raw", rawlen |-> 5])
FlaggedRawMip == MipPart([w |-> 4, h |-> 4, useLZ |-> TRUE, comp |-> 0, dlen |-> 8,
                          enc |-> "raw", rawlen |-> 8])

\* the 12 leading bytes of a tag whose payload is the part that follows it
WrapTag(size) == [Part("wrap", 12) EXCEPT !.name = "XXXX", !.size = size]

Tails ==
    {<<>>, <<CutTag(6)>>, <<CutTag(10)>>, <<CutTag(14)>>, <<Part("junk", 3)>>,
     <<ZeroPart(2)>>, <<ZeroPart(2), ZeroPart(6)>>, <<ZeroPart(2), OneMip, ZeroPart(6)>>,
     <<WrapTag(OneMip.len), OneMip, ZeroPart(6)>>, <<WrapTag(OneMip.len), OneMip>>,
     <<WrapTag(OneMip.len), OneMip, Part("junk", 3)>>,
     <<ZeroPart(2), LzoMip, OneMip, ZeroPart(6)>>,
     <<ZeroPart(2), OneMip, DummyMip, ZeroPart(6)>>,
     <<ZeroPart(2), DummyMip, ZeroPart(6)>>,
     <<ZeroPart(2), ShortMip, ZeroPart(6)>>, <<ZeroPart(2), BadLzoMip, ZeroPart(6)>>,
     <<ZeroPart(2), FlaggedRawMip, ZeroPart(6)>>} \cup
    {<<WrapTag(OneMip.len), OneMip, CutTag(n)>> : n \in {6, 10, 14}}

RECURSIVE WriteParts(_, _)
WriteParts(f, ps) == IF ps = <<>> THEN f ELSE WriteParts(WritePart(f, Head(ps)), Tail(ps))

\* SFFO stands for the table of the given offsets
ChosenTag(c, targets) ==
    CASE c = "CGVA" -> TagPart("CGVA", <<1, 2, 3, 4>>, 1)
      [] c = "GALF" -> TagPart("GALF", <<1, 0, 0, 0>>, 1)
      [] c = "SFFO0" -> TagPart("SFFO", [i \in 1 .. 16 |-> 0], 4)
      [] OTHER -> TagPart("SFFO", [i \in 1 .. 16 |->
                                      IF i <= Len(targets) THEN targets[i] ELSE 0], 4)

\* the file with the given magic, tags and tail; its SFFO tags name the mip
\* blocks of the tail in order (the end of the file when there is none)
BuildFile(magic, tags, tail) ==
    LET n == Len(tags)
        tagsLen == SumSeq([i \in 1 .. n |-> IF tags[i] \in {"SFFO0", "SFFO"} THEN 76 ELSE 16])
        before(i) == 2 + tagsLen + SumSeq([j \in 1 .. i - 1 |-> tail[j].len])
        mipAt == SelectSeq([i \in 1 .. Len(tail) |-> i], LAMBDA i : tail[i].kind = "mip")
        targets == IF mipAt = <<>> THEN <<before(Len(tail) + 1)>>
                   ELSE [k \in 1 .. Len(mipAt) |-> before(mipAt[k])]
    IN WriteParts(<<>>, <<MagicPart(magic)>> \o [i \in 1 .. n |-> ChosenTag(tags[i], targets)] \o tail)

DecFiles == {BuildFile(m, t, tl) : m \in DecMagics, t \in TagSeqs, tl \in Tails}

InitDecode ==
    /\ out \in DecFiles
    /\ pc = "done"
    /\ img = [w |-> 1, h |-> 1, pal |-> <<PxWhite>>]
    /\ opts = NilOpts
    /\ call = DirectCall(NilOpts)
    /\ mips = <<>>
    /\ hdr = NoHdr
    /\ mi = 1
    /\ err = "none"
    /\ dec = NoDec
    /\ rs = NoResolve
    /\ cf = NoDefault
    /\ sw = NoSwizzle

NextDecode ==
    \/ RunDecodePAA
    \/ RunDecode
    \/ RunDecodeConfig
    \/ RunDecodeMetadata

SpecDecode == InitDecode /\ [][NextDecode]_vars

----------------------------------------------------------------------------
(* texconfig.ResolveTexConvert and wildcardMatch (texconfig/resolver.go).  *)
(* A string is a sequence of one-character strings.                        *)

MaxPatLen == 3
MaxStrLen == 3
MaxHints == 2

\* strings.ToLower on the letters of the model's alphabet
LowerChar(c) == CASE c = "A" -> "a" [] c = "B" -> "b" [] OTHER -> c
ToLower(s) == [i \in 1 .. Len(s) |-> LowerChar(s[i])]

\* filepath.Base for the separator '/': "." for the empty path, trailing
\* separators dropped, the text after the last separator, "/" when nothing
\* is left
RECURSIVE DropTrailingSlashes(_)
DropTrailingSlashes(s) ==
    IF s # <<>> /\ s[Len(s)] = "/" THEN DropTrailingSlashes(SubSeq(s, 1, Len(s) - 1)) ELSE s

Base(name) ==
    IF name = <<>> THEN <<".">>
    ELSE LET t == DropTrailingSlashes(name)
             slashes == {i \in 1 .. Len(t) : t[i] = "/"}
             rest == IF slashes = {} THEN t ELSE SubSeq(t, MaxOf(slashes) + 1, Len(t))
         IN IF rest = <<>> THEN <<"/">> ELSE rest

ZeroTextureHint == [ClassName |-> "", Pattern |-> <<>>]

\* the branch one pass of the loop of wildcardMatch takes (resolver.go:69-95);
\* pi and si count from 0 as in the source
MatchBranch(p, str, pi, si, starIdx) ==
    IF pi < Len(p) /\ (p[pi + 1] = "?" \/ p[pi + 1] = str[si + 1]) THEN "char"
    ELSE IF pi < Len(p) /\ p[pi + 1] = "*" THEN "star"
    ELSE IF starIdx # -1 THEN "retry"
    ELSE "fail"

\* wildcardMatch is entered (resolver.go:61-66)
EnterMatch(r, pattern, s) ==
    [r EXCEPT !.pc = "match", !.p = pattern, !.str = s, !.pi = 0, !.si = 0,
              !.starIdx = -1, !.match = 0]

NoMatchState == [p |-> <<>>, str |-> <<>>, pi |-> 0, si |-> 0, starIdx |-> -1, match |-> 0,
                 result |-> FALSE]

\* a call ResolveTexConvert(name, cfg) with cfg.Hints = hints
ResolveCall(name, hints) ==
    [pc |-> "resolve", caller |-> "ResolveTexConvert", name |-> name, hints |-> hints,
     lower |-> <<>>, i |-> 1, ok |-> FALSE, hint |-> ZeroTextureHint] @@ NoMatchState

\* a call wildcardMatch(pattern, s)
MatchCall(pattern, s) ==
    EnterMatch([pc |-> "match", caller |-> "none", name |-> <<>>, hints |-> <<>>,
                lower |-> <<>>, i |-> 1, ok |-> FALSE, hint |-> ZeroTextureHint] @@ NoMatchState,
               pattern, s)

\* resolver.go:32-33
ResolveEnter ==
    /\ rs.pc = "resolve"
    /\ rs' = [rs EXCEPT !.lower = ToLower(Base(rs.name)), !.i = 1, !.pc = "hints"]
    /\ UNCHANGED <<codec, cf, sw>>

\* resolver.go:34-45: the head of the loop over cfg.Hints
ResolveLoop ==
    /\ rs.pc = "hints"
    /\ \/ /\ rs.i > Len(rs.hints)
          /\ rs' = [rs EXCEPT !.pc = "resolved", !.ok = FALSE, !.hint = ZeroTextureHint]
       \/ /\ rs.i <= Len(rs.hints)
          /\ ToLower(rs.hints[rs.i].Pattern) = <<>>
          /\ rs' = [rs EXCEPT !.i = rs.i + 1]
       \/ /\ rs.i <= Len(rs.hints)
          /\ ToLower(rs.hints[rs.i].Pattern) # <<>>
          /\ rs' = EnterMatch(rs, ToLower(rs.hints[rs.i].Pattern), rs.lower)
    /\ UNCHANGED <<codec, cf, sw>>

\* resolver.go:40-42: wildcardMatch returned
ResolveAfterMatch ==
    /\ rs.pc = "matched"
    /\ rs.caller = "ResolveTexConvert"
    /\ \/ /\ rs.result
          /\ rs' = [rs EXCEPT !.pc = "resolved", !.ok = TRUE, !.hint = rs.hints[rs.i]]
       \/ /\ ~rs.result
          /\ rs' = [rs EXCEPT !.pc = "hints", !.i = rs.i + 1]
    /\ UNCHANGED <<codec, cf, sw>>

\* wildcardMatch, one pass of its first loop (resolver.go:69-95)
MatchLoop ==
    /\ rs.pc = "match"
    /\ rs.si < Len(rs.str)
    /\ \E b \in {MatchBranch(rs.p, rs.str, rs.pi, rs.si, rs.starIdx)} :
          \/ /\ b = "char"
             /\ rs' = [rs EXCEPT !.pi = rs.pi + 1, !.si = rs.si + 1]
          \/ /\ b = "star"
             /\ rs' = [rs EXCEPT !.starIdx = rs.pi, !.match = rs.si, !.pi = rs.pi + 1]
          \/ /\ b = "retry"
             /\ rs' = [rs EXCEPT !.pi = rs.starIdx + 1, !.match = rs.match + 1,
                                 !.si = rs.match + 1]
          \/ /\ b = "fail"
             /\ rs' = [rs EXCEPT !.pc = "matched", !.result = FALSE]
    /\ UNCHANGED <<codec, cf, sw>>

\* wildcardMatch, one pass of its second loop (resolver.go:98-100)
MatchSkipStar ==
    /\ rs.pc = "match"
    /\ rs.si >= Len(rs.str)
    /\ rs.pi < Len(rs.p) /\ rs.p[rs.pi + 1] = "*"
    /\ rs' = [rs EXCEPT !.pi = rs.pi + 1]
    /\ UNCHANGED <<codec, cf, sw>>

\* wildcardMatch returns pi == len(p) (resolver.go:102)
MatchReturn ==
    /\ rs.pc = "match"
    /\ rs.si >= Len(rs.str)
    /\ ~(rs.pi < Len(rs.p) /\ rs.p[rs.pi + 1] = "*")
    /\ rs' = [rs EXCEPT !.pc = "matched", !.result = (rs.pi = Len(rs.p))]
    /\ UNCHANGED <<codec, cf, sw>>

\* the codec is not running
CodecIdle ==
    /\ call = DirectCall(NilOpts)
    /\ pc = "idle"
    /\ img = [w |-> 1, h |-> 1, pal |-> <<PxWhite>>]
    /\ opts = NilOpts
    /\ mips = <<>>
    /\ hdr = NoHdr
    /\ mi = 1
    /\ out = <<>>
    /\ err = "none"
    /\ dec = NoDec

SeqsOver(S, n) == UNION {[1 .. k -> S] : k \in 0 .. n}

\* calls of wildcardMatch: patterns and strings as ResolveTexConvert passes
\* them (lower case), the strings with a '*' of their own
PatChars == {"a", "b", "*", "?"}
StrChars == {"a", "b", "*"}

InitMatch ==
    /\ CodecIdle
    /\ cf = NoDefault
    /\ sw = NoSwizzle
    /\ \E pattern \in SeqsOver(PatChars, MaxPatLen), s \in SeqsOver(StrChars, MaxStrLen) :
           rs = MatchCall(pattern, s)

NextMatch ==
    \/ MatchLoop
    \/ MatchSkipStar
    \/ MatchReturn

SpecMatch == InitMatch /\ [][NextMatch]_vars
FairSpecMatch == SpecMatch /\ WF_vars(NextMatch)

\* calls of ResolveTexConvert: names with directories, upper case and '*';
\* hint i has class name i
NameChars == {"a", "B", "/", "*"}
ResPatterns == {<<>>, <<"*">>, <<"A">>, <<"b">>, <<"*", "a">>, <<"?", "b">>, <<"a", "*">>}
HintLists ==
    UNION {{[i \in 1 .. k |-> [ClassName |-> i, Pattern |-> ps[i]]] : ps \in [1 .. k -> ResPatterns]} :
              k \in 0 .. MaxHints}

InitResolve ==
    /\ CodecIdle
    /\ cf = NoDefault
    /\ sw = NoSwizzle
    /\ \E name \in SeqsOver(NameChars, MaxStrLen), hints \in HintLists :
           rs = ResolveCall(name, hints)

NextResolve ==
    \/ ResolveEnter
    \/ ResolveLoop
    \/ ResolveAfterMatch
    \/ MatchLoop
    \/ MatchSkipStar
    \/ MatchReturn

SpecResolve == InitResolve /\ [][NextResolve]_vars

----------------------------------------------------------------------------
(* One pixel through the encoder's swizzle and the decoder's ZIWS step      *)

\* the two payloads applySwizzleTag treats apart (part_000:100, read.go:68)
swizzleDXT5NM == <<5, 4, 2, 3>>
swizzleADSHQ == <<2, 9, 3, 9>>

\* the closure get of applySwizzlePayload (part_000:238-249)
get(px, sel) ==
    CASE sel % 4 = 0 -> px[4]
      [] sel % 4 = 1 -> px[1]
      [] sel % 4 = 2 -> px[2]
      [] OTHER -> px[3]

\* one tag byte of applySwizzlePayload (part_000:259-268): bit 3 forces 0xFF,
\* bit 2 negates, bits 1-0 select the channel
tagByteValue(px, t) ==
    IF (t \div 8) % 2 = 1 THEN 255
    ELSE IF (t \div 4) % 2 = 1 THEN 255 - get(px, t)
    ELSE get(px, t)

\* applySwizzlePayload (part_000:227-285) on one pixel; tag bytes are in
\* A, R, G, B order
applySwizzlePayload(px, tag) ==
    <<tagByteValue(px, tag[2]), tagByteValue(px, tag[3]), tagByteValue(px, tag[4]),
      tagByteValue(px, tag[1])>>

\* applyADSHQSwizzle (part_000:287-308) on one pixel
applyADSHQSwizzle(px) == <<0, px[4], px[4], px[4]>>

\* a product m * n as <<high, low>> with value 256 * high + low, for
\* products beyond 2^31; the comparison of two such products
Wide(m, n) == <<m * (n \div 256) + (m * (n % 256)) \div 256, (m * (n % 256)) % 256>>
WideLeq(p, q) == p[1] < q[1] \/ (p[1] = q[1] /\ p[2] <= q[2])

\* the largest k in 0 .. 255 with k <= 255 * (d / l * 0.5 + 0.5), where
\* l = sqrt(sq); the comparison is made on the squares
normalized(d, sq) ==
    IF sq = 0 THEN (255 * (d + 255)) \div 510
    ELSE CHOOSE k \in 0 .. 255 :
             LET le(j) == LET a == 2 * j - 255 IN
                          IF a <= 0 /\ d >= 0 THEN TRUE
                          ELSE IF a > 0 /\ d < 0 THEN FALSE
                          ELSE IF a > 0 THEN WideLeq(Wide(a * a, sq), Wide(65025, d * d))
                          ELSE WideLeq(Wide(65025, d * d), Wide(a * a, sq))
             IN le(k) /\ (k = 255 \/ ~le(k + 1))

\* unswizzleNormalMap (part_000:144-208) on one pixel: X = 255 - A, Y = G,
\* Z = B, normalized; alpha becomes 255
unswizzleNormalMap(px) ==
    LET x == 2 * (255 - px[4]) - 255
        y == 2 * px[2] - 255
        z == 2 * px[3] - 255
        sq == x * x + y * y + z * z
    IN <<normalized(x, sq), normalized(y, sq), normalized(z, sq), 255>>

\* applySwizzleTag (read.go:56-73) on one pixel of the decoded image; p has
\* the file's Type and its ZIWS payload (<<>> when the file has none)
applySwizzleTag(p, px) ==
    IF Len(p.ZIWS) # 4 \/ p.Type # PaxDXT5 THEN px
    ELSE IF p.ZIWS = swizzleDXT5NM THEN unswizzleNormalMap(px)
    ELSE IF p.ZIWS = swizzleADSHQ THEN applyADSHQSwizzle(px)
    ELSE applySwizzlePayload(px, p.ZIWS)

\* the encoder's side (write.go:184-186 and the ZIWS tag of
\* EncodeOptionsFromHint): the stored pixel and the tag of the file
SwizzleEncode ==
    /\ sw.pc = "encode"
    /\ sw' = [sw EXCEPT !.pc = "stored",
                        !.stored = applySwizzle(sw.swizzle, sw.px),
                        !.ZIWS = IF ZIWSTag(sw.swizzle).ok THEN ZIWSTag(sw.swizzle).tag
                                 ELSE <<>>]
    /\ UNCHANGED <<codec, rs, cf>>

\* the decoder's side (read.go:32): applySwizzleTag on the decoded image
SwizzleDecode ==
    /\ sw.pc = "stored"
    /\ sw' = [sw EXCEPT !.pc = "decoded",
                        !.decoded = applySwizzleTag([Type |-> sw.Type, ZIWS |-> sw.ZIWS],
                                                    sw.stored)]
    /\ UNCHANGED <<codec, rs, cf>>

\* swizzles built from channel selections and negations that use every
\* channel once, without the identity and the two payloads treated apart
SwizzleSources == {SwizzleA, SwizzleR, SwizzleG, SwizzleB}
ChannelExprs == {Sel(c) : c \in SwizzleSources} \cup {Neg(c) : c \in SwizzleSources}
InvertibleSwizzles ==
    {s \in [R : ChannelExprs, G : ChannelExprs, B : ChannelExprs, A : ChannelExprs] :
        /\ {s.R.Source, s.G.Source, s.B.Source, s.A.Source} = SwizzleSources
        /\ ~IsIdentity(s)
        /\ ZIWSTag(s).tag \notin {swizzleDXT5NM, swizzleADSHQ}}

SwizzlePixels == {PxA, PxB, PxHalf, PxClear, PxWhite}
\* the pixel formats of files EncodeWithTexConfigOptions writes with a ZIWS tag
SwizzleTypes == {PaxDXT1, PaxDXT5}

InitSwizzle ==
    /\ CodecIdle
    /\ rs = NoResolve
    /\ cf = NoDefault
    /\ \E s \in InvertibleSwizzles, px \in SwizzlePixels, t \in SwizzleTypes :
           sw = [pc |-> "encode", swizzle |-> s, px |-> px, Type |-> t,
                 stored |-> <<>>, ZIWS |-> <<>>, decoded |-> <<>>]

NextSwizzle ==
    \/ SwizzleEncode
    \/ SwizzleDecode

SpecSwizzle == InitSwizzle /\ [][NextSwizzle]_vars

\* a decoded pixel of a file with any ZIWS payload of the ten codes of
\* part_007:487-498, as Decode meets it before applySwizzleTag
TagCodes == 0 .. 9
TagPayloads == [1 .. 4 -> TagCodes]
InitTag ==
    /\ CodecIdle
    /\ rs = NoResolve
    /\ cf = NoDefault
    /\ \E tag \in TagPayloads, px \in SwizzlePixels, t \in SwizzleTypes :
           sw = [pc |-> "stored", Type |-> t, stored |-> px, ZIWS |-> tag, decoded |-> <<>>]

NextTag == SwizzleDecode

SpecTag == InitTag /\ [][NextTag]_vars

----------------------------------------------------------------------------
(* applyEncodeOverrides on derived options and caller's overrides          *)

\* the fields applyEncodeOverrides does not name, at their zero values and
\* at values of the deriving side and of the caller's side
RestOf(o, side) ==
    CASE side = "zero" -> o
      [] side = "derived" ->
             [o EXCEPT !.Type = PaxDXT5, !.UseLZO = TRUE, !.WriteSwizzleTag = TRUE,
                       !.SwizzleTag = <<8, 0, 0, 0>>, !.WriteGALF = TRUE, !.GALFValue = 1,
                       !.MipmapFilter = "Box", !.UseSRGB = TRUE]
      [] side = "caller" ->
             [o EXCEPT !.Type = PaxARGB8, !.NormalMapSwizzle = TRUE, !.WriteSwizzleTag = TRUE,
                       !.WriteNohqSwizzleTag = TRUE,
                       !.SwizzleTag = <<5, 4, 2, 3>>, !.WriteGALF = TRUE, !.GALFValue = 2,
                       !.MipmapFilter = "Kaiser", !.GenerateMipmaps = "false",
                       !.MaxMipCount = 2, !.MinMipSize = 8]
BCnChoices ==
    {NilBCn, ZeroBCn,
     [ZeroBCn EXCEPT !.RGBWeights = "5,9,2", !.QualityLevel = 1, !.UseSRGB = TRUE],
     [ZeroBCn EXCEPT !.RGBWeights = "5,5,5", !.Refinement = "two passes", !.Workers = 4,
                     !.GenerateMipmaps = TRUE, !.AlphaThreshold = 128]}
OverrideArgs ==
    {NilOpts}
    \cup {RestOf([ZeroOpts EXCEPT !.ForceCXAMFull = c, !.ForceLZSS = f, !.SkipSwizzle = k[1],
                                  !.Swizzle = k[2], !.BCn = b], side) :
             c \in BOOLEAN, f \in BOOLEAN,
             k \in {<<FALSE, "nil">>, <<FALSE, "set">>, <<TRUE, "nil">>, <<TRUE, "set">>},
             b \in BCnChoices, side \in {"zero", "derived", "caller"}}

InitOverride ==
    /\ \E d \in OverrideArgs, o \in OverrideArgs :
           call = [entry |-> "applyEncodeOverrides", dst |-> d, override |-> o]
    /\ pc = "override"
    /\ img = [w |-> 1, h |-> 1, pal |-> <<PxWhite>>]
    /\ opts = NilOpts
    /\ mips = <<>>
    /\ hdr = NoHdr
    /\ mi = 1
    /\ out = <<>>
    /\ err = "none"
    /\ dec = NoDec
    /\ rs = NoResolve
    /\ cf = NoDefault
    /\ sw = NoSwizzle

\* the call applyEncodeOverrides(dst, override); opts is dst after the call
ApplyOverrides ==
    /\ pc = "override"
    /\ pc' = "overridden"
    /\ opts' = applyEncodeOverrides(call.dst, call.override)
    /\ UNCHANGED <<rs, cf, sw, call, img, mips, hdr, mi, out, err, dec>>

NextOverride == ApplyOverrides

SpecOverride == InitOverride /\ [][NextOverride]_vars

----------------------------------------------------------------------------
(* Package texconfig: the default config, its sync.Once and its RWMutex     *)

MaxCalls == 2

\* a TexConvertConfig (resolver.go:122-144); a hint here is its class name
\* and its EnableDXT pointer: 0 is nil, any other value the address of a bool
\* in cf.heap
ZeroConfig ==
    [Hints |-> <<>>, ConvertVersion |-> 0, ApplyDefaultErrorMetrics |-> FALSE,
     UseSRGBFromDynRange |-> FALSE, DisableAutoReduce |-> FALSE, DisableLZO |-> FALSE]

\* defaultTexConvertConfig (default_values.go:4-340), two of its hints: the
\* first one (no EnableDXT) and "detail" (EnableDXT: boolPtr(true), cell 1)
defaultTexConvertConfig ==
    [ZeroConfig EXCEPT !.ConvertVersion = 6, !.UseSRGBFromDynRange = TRUE,
                       !.Hints = <<[ClassName |-> "TexRGBA8888", EnableDXT |-> 0],
                                   [ClassName |-> "detail", EnableDXT |-> 1]>>]

\* configs a caller builds for SetDefaultTexConvertConfig; cells 2 and 3 are
\* the caller's
ArgConfigs ==
    {[ZeroConfig EXCEPT !.ConvertVersion = 7, !.ApplyDefaultErrorMetrics = TRUE,
                        !.DisableAutoReduce = TRUE, !.DisableLZO = TRUE,
                        !.Hints = <<[ClassName |-> "a1", EnableDXT |-> 2],
                                    [ClassName |-> "a2", EnableDXT |-> 0]>>],
     [ZeroConfig EXCEPT !.ConvertVersion = 8, !.UseSRGBFromDynRange = TRUE,
                        !.Hints = <<[ClassName |-> "b1", EnableDXT |-> 3]>>]}

InitHeap == <<TRUE, FALSE, TRUE>>

\* TexConvertConfig.Clone (resolver.go:190-198): a new hint slice with the
\* hints copied field by field (pointers as pointers), ConvertVersion, and
\* nothing else
Clone(c) == [ZeroConfig EXCEPT !.ConvertVersion = c.ConvertVersion, !.Hints = c.Hints]

\* a config with the bool behind every EnableDXT in place of its address
Deref(c, heap) ==
    [c EXCEPT !.Hints = [i \in DOMAIN c.Hints |->
                            [c.Hints[i] EXCEPT !.EnableDXT =
                                IF c.Hints[i].EnableDXT = 0 THEN "nil"
                                ELSE heap[c.Hints[i].EnableDXT]]]]

\* sync.RWMutex as defaultTexConvertMu uses it: readers enter while no
\* writer holds or awaits the lock
CanRLockAlways(w) == TRUE
CanRLock(w) == w = 0

IdleCaller ==
    [pc |-> "idle", after |-> "idle", last |-> "none", calls |-> 0, arg |-> ZeroConfig,
     local |-> ZeroConfig, result |-> ZeroConfig, floor |-> 0, seqH |-> 0, seqV |-> 0,
     mine |-> 0, want |-> ZeroConfig, wantDeref |-> ZeroConfig, gotDeref |-> ZeroConfig]

\* the package state of default_values.go:381-386 with n calling goroutines
DefaultState(n, mutating) ==
    [once |-> "new", w |-> 0, readers |-> {}, Cfgv |-> ZeroConfig, Err |-> "nil",
     heap |-> InitHeap, g |-> [t \in 1 .. n |-> IdleCaller], mutating |-> mutating,
     inits |-> 0, stores |-> 0, initAfterSet |-> FALSE, seqH |-> 0, seqV |-> 0,
     returned |-> 0, storedArg |-> ZeroConfig, fresh |-> ZeroConfig]

Callers == IF cf = NoDefault THEN {} ELSE DOMAIN cf.g

\* a goroutine calls DefaultTexConvertConfig
GetEnter(t) ==
    /\ cf.g[t].pc = "idle" /\ cf.g[t].calls < MaxCalls
    /\ cf' = [cf EXCEPT !.g[t].pc = "once", !.g[t].after = "rlock",
                        !.g[t].floor = cf.returned]
    /\ UNCHANGED <<codec, rs, sw>>

\* a goroutine calls SetDefaultTexConvertConfig(cfg) with a config it built or
\* one it holds
SetEnter(t) ==
    /\ cf.g[t].pc = "idle" /\ cf.g[t].calls < MaxCalls
    /\ \E c \in ArgConfigs \cup {x \in {cf.g[t].local} : cf.g[t].last # "none"} :
           cf' = [cf EXCEPT !.g[t].pc = "once", !.g[t].after = "lock", !.g[t].arg = c,
                            !.g[t].local = c]
    /\ UNCHANGED <<codec, rs, sw>>

\* defaultTexConvertOnce.Do(initDefaultTexConvert): the first caller runs the
\* function, callers arriving while it runs wait, later callers pass
OnceDo(t) ==
    /\ cf.g[t].pc = "once"
    /\ \/ /\ cf.once = "new"
          /\ cf' = [cf EXCEPT !.once = "running", !.g[t].pc = "init"]
       \/ /\ cf.once = "done"
          /\ cf' = [cf EXCEPT !.g[t].pc = cf.g[t].after]
    /\ UNCHANGED <<codec, rs, sw>>

\* initDefaultTexConvert (default_values.go:389-395) inside Once.Do, from its
\* Lock to its deferred Unlock: no other goroutine is past its own Once.Do, so
\* none holds or awaits the lock
InitDefaultTexConvert(t) ==
    /\ cf.g[t].pc = "init"
    /\ cf.w = 0 /\ cf.readers = {}
    /\ cf' = [cf EXCEPT !.Cfgv = defaultTexConvertConfig, !.Err = "nil",
                        !.once = "done", !.g[t].pc = cf.g[t].after,
                        !.inits = cf.inits + 1,
                        !.initAfterSet = cf.initAfterSet \/ cf.stores > 0,
                        !.seqH = 0, !.seqV = 0,
                        !.storedArg = defaultTexConvertConfig,
                        !.fresh = Deref(Clone(defaultTexConvertConfig), cf.heap)]
    /\ UNCHANGED <<codec, rs, sw>>

\* defaultTexConvertMu.RLock()
RLock(t) ==
    /\ cf.g[t].pc = "rlock"
    /\ CanRLock(cf.w)
    /\ cf' = [cf EXCEPT !.readers = cf.readers \cup {t}, !.g[t].pc = "read"]
    /\ UNCHANGED <<codec, rs, sw>>

\* defaultTexConvertCfgv.Clone(): the receiver is a copy of the variable, read
\* field after field, Hints first
CloneReadHints(t) ==
    /\ cf.g[t].pc = "read"
    /\ cf' = [cf EXCEPT !.g[t].pc = "read2", !.g[t].result = [ZeroConfig EXCEPT !.Hints = cf.Cfgv.Hints],
                        !.g[t].seqH = cf.seqH]
    /\ UNCHANGED <<codec, rs, sw>>

CloneReadRest(t) ==
    /\ cf.g[t].pc = "read2"
    /\ \E got \in {Clone([cf.Cfgv EXCEPT !.Hints = cf.g[t].result.Hints])} :
           cf' = [cf EXCEPT !.g[t].pc = "runlock", !.g[t].result = got,
                            !.g[t].seqV = cf.seqV,
                            !.g[t].want = cf.storedArg,
                            !.g[t].wantDeref = cf.fresh,
                            !.g[t].gotDeref = Deref(got, cf.heap)]
    /\ UNCHANGED <<codec, rs, sw>>

\* the deferred RUnlock and the return of DefaultTexConvertConfig
GetReturn(t) ==
    /\ cf.g[t].pc = "runlock"
    /\ cf' = [cf EXCEPT !.readers = cf.readers \ {t}, !.g[t].pc = "idle",
                        !.g[t].last = "get", !.g[t].calls = cf.g[t].calls + 1,
                        !.g[t].local = cf.g[t].result]
    /\ UNCHANGED <<codec, rs, sw>>

\* defaultTexConvertMu.Lock(): the writers' mutex first, then the readers
\* that are in drain
Lock(t) ==
    /\ cf.g[t].pc = "lock"
    /\ cf.w = 0
    /\ cf' = [cf EXCEPT !.w = t, !.g[t].pc = "drain"]
    /\ UNCHANGED <<codec, rs, sw>>

LockDrained(t) ==
    /\ cf.g[t].pc = "drain"
    /\ cf.readers = {}
    /\ cf' = [cf EXCEPT !.g[t].pc = "store"]
    /\ UNCHANGED <<codec, rs, sw>>

\* defaultTexConvertCfgv = cfg.Clone(): the variable is written field after
\* field, Hints first
StoreHints(t) ==
    /\ cf.g[t].pc = "store"
    /\ cf' = [cf EXCEPT !.Cfgv.Hints = Clone(cf.g[t].arg).Hints, !.seqH = cf.stores + 1,
                        !.g[t].pc = "store2"]
    /\ UNCHANGED <<codec, rs, sw>>

StoreRest(t) ==
    /\ cf.g[t].pc = "store2"
    /\ cf' = [cf EXCEPT !.Cfgv = [Clone(cf.g[t].arg) EXCEPT !.Hints = cf.Cfgv.Hints],
                        !.Err = "nil", !.seqV = cf.stores + 1, !.stores = cf.stores + 1,
                        !.g[t].mine = cf.stores + 1,
                        !.storedArg = cf.g[t].arg,
                        !.fresh = Deref(Clone(Clone(cf.g[t].arg)), cf.heap),
                        !.g[t].pc = "unlock"]
    /\ UNCHANGED <<codec, rs, sw>>

\* defaultTexConvertMu.Unlock() and the return of SetDefaultTexConvertConfig
SetReturn(t) ==
    /\ cf.g[t].pc = "unlock"
    /\ cf' = [cf EXCEPT !.w = 0, !.g[t].pc = "idle", !.g[t].last = "set",
                        !.g[t].calls = cf.g[t].calls + 1,
                        !.returned = IF cf.g[t].mine > cf.returned THEN cf.g[t].mine
                                     ELSE cf.returned]
    /\ UNCHANGED <<codec, rs, sw>>

\* between its calls a caller changes the config it holds: the value behind a
\* hint's EnableDXT, a field of a hint, the hint list
CallerWritesBool(t) ==
    /\ cf.mutating /\ cf.g[t].pc = "idle" /\ cf.g[t].last # "none"
    /\ \E i \in DOMAIN cf.g[t].local.Hints :
           /\ cf.g[t].local.Hints[i].EnableDXT # 0
           /\ cf' = [cf EXCEPT !.heap[cf.g[t].local.Hints[i].EnableDXT] = ~@]
    /\ UNCHANGED <<codec, rs, sw>>

CallerWritesHint(t) ==
    /\ cf.mutating /\ cf.g[t].pc = "idle" /\ cf.g[t].last # "none"
    /\ \E i \in DOMAIN cf.g[t].local.Hints :
           /\ cf.g[t].local.Hints[i].ClassName # "changed"
           /\ cf' = [cf EXCEPT !.g[t].local.Hints[i].ClassName = "changed"]
    /\ UNCHANGED <<codec, rs, sw>>

CallerWritesHintList(t) ==
    /\ cf.mutating /\ cf.g[t].pc = "idle" /\ cf.g[t].last # "none"
    /\ cf.g[t].local.Hints # <<>>
    /\ cf' = [cf EXCEPT !.g[t].local.Hints = Tail(cf.g[t].local.Hints)]
    /\ UNCHANGED <<codec, rs, sw>>

CallStep(t) ==
    \/ OnceDo(t)
    \/ InitDefaultTexConvert(t)
    \/ RLock(t)
    \/ CloneReadHints(t)
    \/ CloneReadRest(t)
    \/ GetReturn(t)
    \/ Lock(t)
    \/ LockDrained(t)
    \/ StoreHints(t)
    \/ StoreRest(t)
    \/ SetReturn(t)

\* one caller that also changes the configs it holds
InitDefault ==
    /\ CodecIdle
    /\ rs = NoResolve
    /\ sw = NoSwizzle
    /\ cf = DefaultState(1, TRUE)

NextDefault ==
    \/ \E t \in Callers : GetEnter(t)
    \/ \E t \in Callers : SetEnter(t)
    \/ \E t \in Callers : OnceDo(t)
    \/ \E t \in Callers : InitDefaultTexConvert(t)
    \/ \E t \in Callers : RLock(t)
    \/ \E t \in Callers : CloneReadHints(t)
    \/ \E t \in Callers : CloneReadRest(t)
    \/ \E t \in Callers : GetReturn(t)
    \/ \E t \in Callers : Lock(t)
    \/ \E t \in Callers : LockDrained(t)
    \/ \E t \in Callers : StoreHints(t)
    \/ \E t \in Callers : StoreRest(t)
    \/ \E t \in Callers : SetReturn(t)
    \/ \E t \in Callers : CallerWritesBool(t)
    \/ \E t \in Callers : CallerWritesHint(t)
    \/ \E t \in Callers : CallerWritesHintList(t)

SpecDefault == InitDefault /\ [][NextDefault]_vars

\* two goroutines calling concurrently
InitConcurrent ==
    /\ CodecIdle
    /\ rs = NoResolve
    /\ sw = NoSwizzle
    /\ cf = DefaultState(2, FALSE)

NextConcurrent ==
    \/ \E t \in Callers : GetEnter(t)
    \/ \E t \in Callers : SetEnter(t)
    \/ \E t \in Callers : OnceDo(t)
    \/ \E t \in Callers : InitDefaultTexConvert(t)
    \/ \E t \in Callers : RLock(t)
    \/ \E t \in Callers : CloneReadHints(t)
    \/ \E t \in Callers : CloneReadRest(t)
    \/ \E t \in Callers : GetReturn(t)
    \/ \E t \in Callers : Lock(t)
    \/ \E t \in Callers : LockDrained(t)
    \/ \E t \in Callers : StoreHints(t)
    \/ \E t \in Callers : StoreRest(t)
    \/ \E t \in Callers : SetReturn(t)

SpecConcurrent == InitConcurrent /\ [][NextConcurrent]_vars
\* the Go scheduler runs every runnable goroutine, and a goroutine waiting for
\* the Once or the lock becomes runnable when it is released
FairSpecConcurrent == SpecConcurrent /\ \A t \in {1, 2} : WF_vars(CallStep(t))

----------------------------------------------------------------------------
(* Properties                                                              *)

\* EncodeWithOptions returned nil
Succeeded == pc \in {"done", "decoded"}

\* the payload of the first tag called name in f (<<>> when there is none)
TagPayload(f, name) ==
    LET is == {i \in 1 .. Len(f) : f[i].kind = "tag" /\ f[i].name = name}
    IN IF is = {} THEN <<>> ELSE f[MinOf(is)].payload

\* the mip blocks of f, in file order
MipBlocks(f) == SelectSeq(f, LAMBDA p : p.kind = "mip")

\* C1: after every successful encode, SFFO entry i is the number of bytes
\* written before the width field of the i-th mip block, whether or not GALF
\* and ZIWS were written and whatever the payload lengths are.
C1_OffsetsPointAtBlocks ==
    Succeeded =>
        /\ Len(TagPayload(out, "SFFO")) = 16
        /\ \A i \in 1 .. Len(MipBlocks(out)) :
               i <= 16 => TagPayload(out, "SFFO")[i] = MipBlocks(out)[i].at

\* a successful encode with GALF and ZIWS, three or more levels and a
\* payload stored compressed
C1_Witness ==
    /\ Succeeded
    /\ hdr.writeGALF /\ hdr.writeZIWS
    /\ Len(MipBlocks(out)) >= 3
    /\ \E i \in 1 .. Len(mips) : mips[i].enc # "raw"

SidesInRange == img.w \in 1 .. 65535 /\ img.h \in 1 .. 65535

\* C3: for every image with sides between 1 and 65535, Decode and
\* DecodeConfig of what Encode wrote succeed and report the input size.
C3_RoundTripSize ==
    (dec.api \in {"Decode", "DecodeConfig"} /\ call.entry = "Encode" /\ SidesInRange)
        => (dec.err = "none" /\ dec.dims = << <<img.w, img.h>> >>)

\* the labels of the parts of f: kind, tag name and length, and for a mip
\* block the length of its payload before compression
Labels(f) ==
    [i \in 1 .. Len(f) |->
        [kind |-> f[i].kind, name |-> f[i].name, len |-> f[i].len, rawlen |-> f[i].rawlen]]
Label(kind, name, len, rawlen) == [kind |-> kind, name |-> name, len |-> len, rawlen |-> rawlen]

\* the layout a complete file must have for the levels ms
ExpectedLabels(wg, wz, ms) ==
    <<Label("magic", "", 2, 0), Label("tag", "CGVA", 16, 0), Label("tag", "CXAM", 16, 0)>>
    \o (IF wg THEN <<Label("tag", "GALF", 16, 0)>> ELSE <<>>)
    \o (IF wz THEN <<Label("tag", "ZIWS", 16, 0)>> ELSE <<>>)
    \o <<Label("tag", "SFFO", 76, 0), Label("zeros", "", 2, 0)>>
    \o [i \in 1 .. Len(ms) |-> Label("mip", "", 7 + ms[i].dlen, ms[i].rawlen)]
    \o <<Label("zeros", "", 6, 0)>>

IsPrefix(a, b) == Len(a) <= Len(b) /\ \A i \in 1 .. Len(a) : a[i] = b[i]

C5_WidthFieldFlag ==
    isDXT(hdr.paxType) =>
        \A i \in 1 .. Len(MipBlocks(out)) :
            /\ (MipBlocks(out)[i].wf >= 32768) <=> (MipBlocks(out)[i].enc = "lzo")
            /\ MipBlocks(out)[i].wf % 32768 = mips[i].w

FullCxam == <<255, 255, 255, 255>>
WroteDXT15 == Succeeded /\ hdr.paxType \in {PaxDXT1, PaxDXT5}

\* C6 as stated: every DXT1 or DXT5 file has CXAM FF FF FF FF, whatever the
\* entry point, the options and the override.
C6_AlwaysFullCxam == WroteDXT15 => TagPayload(out, "CXAM") = FullCxam

\* C6, amended: a DXT1 or DXT5 file has CXAM FF FF FF FF when it was written
\* by Encode, by EncodeWithOptions with ForceCXAMFull or NormalMapSwizzle
\* set, or by EncodeWithTexConfigOptions with no override or with an
\* override whose ForceCXAMFull is set.
C6_FullCxamWhenForced ==
    (/\ WroteDXT15
     /\ \/ call.entry = "Encode"
        \/ call.entry = "EncodeWithOptions" /\ (opts.ForceCXAMFull \/ opts.NormalMapSwizzle)
        \/ call.entry = "EncodeWithTexConfigOptions"
           /\ (call.override.isNil \/ call.override.ForceCXAMFull))
        => TagPayload(out, "CXAM") = FullCxam

\* a DXT file of an image that is not white in every channel, written
\* through a hint with an override that keeps ForceCXAMFull set
C6_Witness ==
    /\ WroteDXT15
    /\ call.entry = "EncodeWithTexConfigOptions"
    /\ call.hint.ok /\ ~call.override.isNil /\ call.override.ForceCXAMFull
    /\ \E c \in 1 .. 4 : \A i \in UsedPal(img) : img.pal[i][c] < 255

\* the sum of channel c over the pixels of im: each colour of the palette
\* counted as often as a pixel has it
PixelSum(im, c) ==
    SumSeq([j \in 1 .. Len(im.pal) |->
               im.pal[j][c]
               * Cardinality({i \in 0 .. (im.w * im.h - 1) : i % Len(im.pal) = j - 1})])

\* floor of the mean of channel c; an image of one colour has that colour as
\* its mean
FloorMean(im, c) ==
    IF Len(im.pal) = 1 THEN im.pal[1][c] ELSE PixelSum(im, c) \div (im.w * im.h)

\* C7: the CGVA payload is the floor of the mean of B, G, R and A over the
\* pixels of the image handed to EncodeWithOptions, whatever the format and
\* the options.
C7_CgvaIsFloorMean ==
    TagPayload(out, "CGVA") # <<>> =>
        TagPayload(out, "CGVA") =
            <<FloorMean(img, 3), FloorMean(img, 2), FloorMean(img, 1), FloorMean(img, 4)>>

\* a file of a two-colour image whose channel means differ and are not whole
C7_Witness ==
    /\ Succeeded
    /\ img.pal = <<PxA, PxB>> /\ img.w * img.h = 3
    /\ opts.NormalMapSwizzle

AllOpaque == \A i \in UsedPal(img) : img.pal[i][4] = 255
AutoFormat == opts.isNil \/ (opts.Type = 0 /\ ~opts.NormalMapSwizzle)

MinMipSizeInForce ==
    IF ~opts.isNil /\ opts.MinMipSize > 0 THEN opts.MinMipSize
    ELSE IF hdr.paxType \in {PaxDXT1, PaxDXT2, PaxDXT3, PaxDXT4, PaxDXT5} THEN 4 ELSE 1
MaxMipCountInForce == IF ~opts.isNil /\ opts.MaxMipCount > 0 THEN opts.MaxMipCount ELSE 0
Small(m) == m.w <= MinMipSizeInForce /\ m.h <= MinMipSizeInForce
Halved(a) == IF a \div 2 < 1 THEN 1 ELSE a \div 2

ValidMagic(f) == f # <<>> /\ f[1].kind = "magic" /\ PaxTypeFromBytes(f[1].payload) # 0
HasSFFO(f) == \E i \in 1 .. Len(f) : f[i].kind = "tag" /\ f[i].name = "SFFO"

\* C10: DecodePAA, Decode, DecodeConfig and DecodeMetadata return MissingSFFO
\* for every input that starts with a valid magic and has no SFFO tag.
C10_MissingSFFO ==
    (dec.api # "none" /\ ValidMagic(out) /\ ~HasSFFO(out)) => dec.err = "MissingSFFO"

\* the tags read up to the point where tag parsing ends, and the mips the
\* SFFO tag among them names, read as DecodePAA reads them
TagsRead(f) == readGGATTags(f, 2, NoTags)
ContinuedMips(f, g) ==
    Bind(sffoOffsets(TagsRead(f).tags), LAMBDA so :
         IF so.err # "none" THEN [err |-> so.err, MipMaps |-> <<>>]
         ELSE ReadMips(f, so.offsets, 1, readPaxType(f).pType, g, <<>>))
ContinuedOK(f) ==
    \A g \in GarbageBehaviours :
        Bind(ContinuedMips(f, g), LAMBDA ms :
             /\ ms.err = "none"
             /\ Len(ms.MipMaps) > 0
             /\ ImageErr(ms.MipMaps[1], readPaxType(f).pType) = "none")

\* tag parsing of f ends at a signature other than GGAT, or at a tag cut
\* short inside its name, length or payload
CutShort(f) == f # <<>> /\ f[Len(f)].kind = "tag" /\ TagReadErr(f[Len(f)]) # "none"
MalformedTags(f) == TagsRead(f).err = "none" \/ CutShort(f)

\* C11: a malformed tag section only ends tag parsing: when an SFFO tag was
\* read before it and the mips it names are readable, decoding succeeds.
C11_MalformedTagsTolerated ==
    (dec.api # "none" /\ ValidMagic(out) /\ MalformedTags(out)
        /\ "SFFO" \in DOMAIN TagsRead(out).tags /\ ContinuedOK(out))
    => dec.err = "none"

\* the non-zero SFFO entries of f, and those of them that do not name a
\* (0,0) block
SffoEntries(f) == sffoOffsets(TagsRead(f).tags).offsets
IsDummyAt(f, off) ==
    LET i == PartAt(f, off) IN i # 0 /\ f[i].kind = "mip" /\ f[i].wf = 0 /\ f[i].hf = 0
RealEntries(f) == SelectSeq(SffoEntries(f), LAMBDA off : ~IsDummyAt(f, off))

\* f cut right after the width and height fields of its last mip block
LastMip(f) == MaxOf(MipIndices(f))
CutAfterLastHeader(f) ==
    IF MipIndices(f) = {} THEN f
    ELSE [i \in 1 .. LastMip(f) |-> IF i = LastMip(f) THEN [f[i] EXCEPT !.len = 4] ELSE f[i]]

\* DecodeMetadata succeeded on the input
MetadataRead == dec.api = "DecodeMetadata" /\ dec.err = "none"

\* DecodeMetadata and DecodePAA agree where both succeed, and DecodeMetadata
\* needs no byte behind the 4 header bytes of a block
MetadataParity ==
    /\ \A g \in GarbageBehaviours :
           Bind(DecodePAA(out, g), LAMBDA p :
                p.err = "none" => p.Type = dec.Type /\ Dims(p.MipMaps) = dec.dims)
    /\ Bind(DecodeMetadata(CutAfterLastHeader(out)), LAMBDA m :
            m.err = "none" /\ m.Type = dec.Type /\ Dims(m.MipHeaders) = dec.dims)

C12_WitnessMasked ==
    /\ MetadataRead
    /\ Len(dec.dims) = 2 /\ dec.dims[1] = <<8, 4>>
    /\ \E i \in MipIndices(out) : out[i].wf >= 32768

\* the reference glob rules: '*' matches any run of characters, '?' exactly
\* one character, any other character itself (its letter when fold is set)
SameChar(a, b, fold) == IF fold THEN LowerChar(a) = LowerChar(b) ELSE a = b

RECURSIVE GlobMatch(_, _, _)
GlobMatch(p, s, fold) ==
    IF p = <<>> THEN s = <<>>
    ELSE IF Head(p) = "*"
         THEN GlobMatch(Tail(p), s, fold) \/ (s # <<>> /\ GlobMatch(p, Tail(s), fold))
    ELSE /\ s # <<>>
         /\ (Head(p) = "?" \/ SameChar(Head(p), Head(s), fold))
         /\ GlobMatch(Tail(p), Tail(s), fold)

\* the hints of the call whose pattern matches the base name, ignoring case
MatchingHints ==
    {i \in 1 .. Len(rs.hints) : GlobMatch(rs.hints[i].Pattern, Base(rs.name), TRUE)}

\* C13: ResolveTexConvert returns the first hint whose pattern matches the
\* base filename ignoring case, and no match exactly when no hint matches.
C13_FirstMatchingHint ==
    rs.pc = "resolved" =>
        /\ rs.ok = (MatchingHints # {})
        /\ rs.ok => rs.hint = rs.hints[MinOf(MatchingHints)]

\* the same for names without a '*' of their own
C13_FirstMatchingHintPlainName ==
    (rs.pc = "resolved" /\ \A i \in 1 .. Len(rs.name) : rs.name[i] # "*") =>
        /\ rs.ok = (MatchingHints # {})
        /\ rs.ok => rs.hint = rs.hints[MinOf(MatchingHints)]

\* C14: wildcardMatch(pattern, s) is true exactly when s matches pattern
\* under the reference glob rules.
C14_MatchesGlob ==
    (rs.pc = "matched" /\ rs.caller = "none") => rs.result = GlobMatch(rs.p, rs.str, FALSE)

\* the same for strings without a '*' of their own
C14_MatchesGlobPlainString ==
    (rs.pc = "matched" /\ rs.caller = "none" /\ \A i \in 1 .. Len(rs.str) : rs.str[i] # "*")
    => rs.result = GlobMatch(rs.p, rs.str, FALSE)

\* every call of wildcardMatch returns
C14_Returns == <>(rs.pc = "matched")

\* the hints the encode path rejects: three classes, four formats, and DXT
\* switched off with a format that needs it
RejectedHint(h) ==
    \/ h.ClassName \in {"TexRGBA8888", "ColorMapRaw", "layer_color_draft"}
    \/ h.Format \in {TexFormatP8, TexFormatDXT2, TexFormatDXT3, TexFormatDXT4}
    \/ /\ h.EnableDXT = "false"
       /\ h.Format \notin {TexFormatARGB4444, TexFormatARGB1555, TexFormatAI88, TexFormatP8}

\* EncodeWithTexConfigOptions was called with a name that resolved to a hint,
\* and has passed the resolution of its options
ResolvedCall == call.entry = "EncodeWithTexConfigOptions" /\ call.hint.ok /\ pc # "resolve"

\* C15: EncodeWithTexConfigOptions fails with UnsupportedFormat for every
\* rejected hint, whatever the override, and writes nothing.
C15_UnsupportedRejected ==
    (ResolvedCall /\ RejectedHint(call.hint)) =>
        pc = "failed" /\ err = "UnsupportedFormat" /\ out = <<>>

C15_Witness ==
    /\ ResolvedCall /\ pc = "failed" /\ err = "UnsupportedFormat"
    /\ call.hint.ClassName = "ColorMapRaw"
    /\ ~call.override.isNil /\ call.override.ForceCXAMFull

\* the SWIZTAGG selector of one channel expression: 0..3 select A, R, G, B,
\* 4..7 their negations, 8 the constant 0xFF, 9 the constant 0
Selector(e, def) ==
    IF ~e.Valid THEN def
    ELSE IF e.IsConst THEN (IF e.ConstValue = 0 THEN 9 ELSE 8)
    ELSE IF e.Invert THEN 4 + e.Source
    ELSE e.Source
Swiztagg(s) ==
    <<Selector(s.A, SwizzleA), Selector(s.R, SwizzleR), Selector(s.G, SwizzleG),
      Selector(s.B, SwizzleB)>>

HasTag(f, name) == \E i \in 1 .. Len(f) : f[i].kind = "tag" /\ f[i].name = name
WantsZIWS(h) == ~IsIdentity(h.Swizzle) /\ h.VirtualSwz # "false"

\* C16: a file written for a hint with a non-identity swizzle and VirtualSwz
\* unset or true has a ZIWS tag with the swizzle's SWIZTAGG, also when the
\* pixel swizzle is skipped; otherwise it has no ZIWS tag.
C16_ZiwsFromHint ==
    (ResolvedCall /\ Succeeded) =>
        IF WantsZIWS(call.hint)
        THEN HasTag(out, "ZIWS") /\ TagPayload(out, "ZIWS") = Swiztagg(call.hint.Swizzle)
        ELSE ~HasTag(out, "ZIWS")

C16_Witness ==
    /\ ResolvedCall /\ Succeeded
    /\ call.hint.Swizzle = AlphaSwz /\ call.hint.VirtualSwz = "nil"
    /\ opts.SkipSwizzle /\ call.override.isNil
    /\ HasTag(out, "ZIWS")

\* a negated channel in a written ZIWS tag
C16_WitnessNegated ==
    ResolvedCall /\ Succeeded /\ TagPayload(out, "ZIWS") = <<0, 5, 2, 3>>

\* C17: for every invertible swizzle of selections and negations, every pixel
\* and every pixel format, the decoder's ZIWS step on the swizzled pixel gives
\* the pixel back.
C17_DecodeInvertsSwizzle ==
    sw.pc = "decoded" => sw.decoded = sw.px

\* what the decoder does instead: on DXT5 it applies the encoder's swizzle a
\* second time, on every other format it leaves the stored pixel alone
C17_DecodeReapplies ==
    sw.pc = "decoded" =>
        sw.decoded = IF sw.Type = PaxDXT5 THEN applySwizzle(sw.swizzle, sw.stored)
                     ELSE sw.stored

\* a DXT5 file whose swizzle is its own inverse comes back
FieldOf(c) ==
    CASE c = SwizzleR -> "R" [] c = SwizzleG -> "G" [] c = SwizzleB -> "B" [] OTHER -> "A"
SelfInverse(s) ==
    \A f \in {"R", "G", "B", "A"} :
        LET g == FieldOf(s[f].Source) IN
        FieldOf(s[g].Source) = f /\ s[g].Invert = s[f].Invert
C17_SelfInverseOnDXT5 ==
    (sw.pc = "decoded" /\ sw.Type = PaxDXT5 /\ SelfInverse(sw.swizzle)) => sw.decoded = sw.px
C17_SelfInverseReached ==
    sw.pc = "decoded" /\ sw.Type = PaxDXT5 /\ SelfInverse(sw.swizzle) /\ sw.stored # sw.px

Got(t) == t \in Callers /\ cf.g[t].pc = "idle" /\ cf.g[t].last = "get"

\* C18: DefaultTexConvertConfig returns a config equal in every field to the
\* argument of the last SetDefaultTexConvertConfig, and to the built-in
\* default before any Set.
C18_GetEqualsStored ==
    \A t \in Callers : Got(t) => cf.g[t].result = cf.g[t].want

\* the version and the hint list do come back
C18_VersionAndHints ==
    \A t \in Callers :
        Got(t) => /\ cf.g[t].result.ConvertVersion = cf.g[t].want.ConvertVersion
                  /\ cf.g[t].result.Hints = cf.g[t].want.Hints
C18_AfterSetReached ==
    \E t \in Callers : Got(t) /\ cf.stores > 0 /\ cf.g[t].result.ConvertVersion = 7

\* C19: what DefaultTexConvertConfig returns, the values behind the hints'
\* optional booleans included, is what it would have returned right after the
\* last store, whatever the callers changed since.
C19_StoredIsolated ==
    \A t \in Callers : Got(t) => cf.g[t].gotDeref = cf.g[t].wantDeref

\* the hint list and the hints' own fields are isolated
C19_HintsIsolated ==
    \A t \in Callers :
        Got(t) => /\ Len(cf.g[t].gotDeref.Hints) = Len(cf.g[t].wantDeref.Hints)
                  /\ \A i \in DOMAIN cf.g[t].gotDeref.Hints :
                         cf.g[t].gotDeref.Hints[i].ClassName = cf.g[t].wantDeref.Hints[i].ClassName
C19_ChangedReached ==
    \E t \in Callers :
        /\ Got(t) /\ cf.g[t].calls = 2
        /\ cf.g[t].local.Hints # cf.g[t].result.Hints
        /\ cf.heap # InitHeap

HintListsStored == {defaultTexConvertConfig.Hints} \cup {c.Hints : c \in ArgConfigs}

InitOnce ==
    /\ cf.inits <= 1
    /\ ~cf.initAfterSet
    /\ \A t \in Callers : cf.g[t].pc \notin {"idle", "once", "init"} \/ cf.g[t].calls > 0
                              => cf.inits = 1
GetsOneStore ==
    \A t \in Callers :
        Got(t) => /\ cf.g[t].result.Hints \in HintListsStored
                  /\ cf.g[t].seqH = cf.g[t].seqV
                  /\ cf.g[t].seqH >= cf.g[t].floor
                  /\ cf.g[t].result.Hints = cf.g[t].want.Hints
EveryCallReturns ==
    \A t \in {1, 2} : (cf.g[t].pc # "idle") ~> (cf.g[t].pc = "idle")

\* C20: under every interleaving the built-in initialization runs exactly
\* once and never after a Set has stored; every Get returns the hint list
\* (and version) of one store, the built-in one or one Set's; a Get that
\* starts after a Set has returned sees that Set or a later one; every call
\* returns.
C20_Serialized ==
    /\ [](InitOnce /\ GetsOneStore)
    /\ EveryCallReturns

\* a Get that started after one Set had returned and saw a later Set
C20_Witness ==
    \E t \in Callers :
        /\ Got(t) /\ cf.inits = 1
        /\ cf.g[t].floor > 0 /\ cf.g[t].seqH > cf.g[t].floor

\* a reader kept out by a writer, a writer kept out by a reader, and a caller
\* kept waiting by the Once
C20_ReaderWaits == \E t \in Callers : cf.g[t].pc = "rlock" /\ cf.w # 0
C20_WriterWaits == \E t \in Callers : cf.g[t].pc = "drain" /\ cf.readers # {}
C20_OnceWaits == \E t \in Callers : cf.g[t].pc = "once" /\ cf.once = "running"

\* what readMipMap gives for the block at part i of the written file
ReadBack(i, g) == readMipMapAt(out, i, FileLen(out) - StartOf(out, i), hdr.paxType, g)

\* C21: every mip block of a written file is read back by readMipMap through
\* the storage branch the writer used, and gives the uncompressed payload, of
\* the expected raw size; whatever length the compressor returned.
C21_SameBranchReadBack ==
    Succeeded =>
        \A i \in 1 .. Len(out) : \A g \in GarbageBehaviours :
            out[i].kind = "mip" =>
                /\ ReadBack(i, g).err = "none"
                /\ ReadBack(i, g).branch = out[i].enc
                /\ ReadBack(i, g).intact

\* a block written as LZSS under ForceLZSS whose stream is as long as the raw
\* payload is taken as raw
C21_ForcedLzssReadAsRaw ==
    /\ Succeeded /\ ~opts.isNil /\ opts.ForceLZSS
    /\ \E i \in 1 .. Len(out) :
           /\ out[i].kind = "mip" /\ out[i].enc = "lzss" /\ out[i].lf = out[i].rawlen
           /\ ReadBack(i, "fail").err = "none"
           /\ ReadBack(i, "fail").branch = "raw"
           /\ ~ReadBack(i, "fail").intact

\* blocks stored shorter than the raw payload do come back through their
\* own branch
C21_ShorterReadBack ==
    Succeeded =>
        \A i \in 1 .. Len(out) : \A g \in GarbageBehaviours :
            (/\ out[i].kind = "mip" /\ out[i].enc # "raw" /\ out[i].lf < out[i].rawlen
             /\ out[i].lf = out[i].len - 7
             /\ out[i].wf < 32768 + 32768 /\ mips[1].w < 32768
             /\ hdr.paxType \notin {PaxDXT2, PaxDXT3, PaxDXT4})
                => /\ ReadBack(i, g).err = "none"
                   /\ ReadBack(i, g).branch = out[i].enc
                   /\ ReadBack(i, g).intact

UseLZOSet == ~opts.isNil /\ opts.UseLZO
ForceLZSSSet == ~opts.isNil /\ opts.ForceLZSS

\* C22: a DXT payload is stored LZO-compressed only when UseLZO is set and
\* the compressed data is strictly shorter; a non-DXT payload is stored
\* LZSS-compressed exactly when the compressed data is strictly shorter or
\* ForceLZSS is set; the stored length exceeds the raw length only under
\* ForceLZSS; LZO is never used on a non-DXT payload, LZSS never on a DXT one.
C22_CompressionChoice ==
    \A k \in 1 .. Len(mips) :
        LET m == mips[k]
            stored == IF m.enc = "raw" THEN m.rawlen ELSE m.comp
        IN /\ m.dlen = stored
           /\ isDXT(hdr.paxType) =>
                  /\ m.enc \in {"raw", "lzo"}
                  /\ m.enc = "lzo" <=> (UseLZOSet /\ m.comp < m.rawlen)
                  /\ m.useLZ <=> m.enc = "lzo"
           /\ ~isDXT(hdr.paxType) =>
                  /\ m.enc \in {"raw", "lzss"}
                  /\ m.enc = "lzss" <=> (m.comp < m.rawlen \/ ForceLZSSSet)
                  /\ ~m.useLZ
           /\ stored > m.rawlen => ForceLZSSSet
           /\ k <= Len(MipBlocks(out)) =>
                  /\ MipBlocks(out)[k].enc = m.enc
                  /\ MipBlocks(out)[k].len = 7 + stored

\* a DXT file with UseLZO in which one level is stored compressed and
\* another raw because its compressed form is longer
C22_Witness ==
    /\ Succeeded /\ isDXT(hdr.paxType) /\ UseLZOSet
    /\ \E i \in 1 .. Len(mips) : mips[i].enc = "lzo"
    /\ \E i \in 1 .. Len(mips) : mips[i].enc = "raw" /\ mips[i].comp > mips[i].rawlen

\* a forced LZSS payload longer than the raw data
C22_WitnessForced ==
    /\ Succeeded /\ ~isDXT(hdr.paxType) /\ ForceLZSSSet
    /\ \E i \in 1 .. Len(mips) : mips[i].enc = "lzss" /\ mips[i].dlen > mips[i].rawlen

\* what readMipMap gives for the block at part i of a file of type t
ReadBlock(i, t, g) == readMipMapAt(out, i, FileLen(out) - StartOf(out, i), t, g)

\* the decision the block's header and length call for
BlockDecision(i, t) ==
    LET flagged == isDXT(t) /\ out[i].wf >= 32768
        width == IF flagged THEN out[i].wf - 32768 ELSE out[i].wf
    IN IF out[i].wf = 0 /\ out[i].hf = 0 THEN "dummy"
       ELSE IF out[i].lf = expectedMipSize(t, width, out[i].hf) THEN "raw"
       ELSE IF flagged THEN "lzo"
       ELSE IF ~isDXT(t) THEN "lzss"
       ELSE "InsufficientData"

\* C23: readMipMap takes a block whose stored length is the expected raw size
\* as raw; otherwise LZO-decompresses a DXT block with bit 15 of the width set
\* (failure: LZODecompress), LZSS-decompresses a non-DXT block (failure:
\* LZSSDecompress) and fails with InsufficientData on a DXT block with bit 15
\* clear; a 0x0 header gives no mip and no error.
C23_ReadDecision ==
    (dec.api = "DecodePAA" /\ readPaxType(out).err = "none") =>
        \A i \in 1 .. Len(out) : \A g \in GarbageBehaviours :
            (out[i].kind = "mip" /\ out[i].lf = out[i].len - 7) =>
                LET r == ReadBlock(i, readPaxType(out).pType, g)
                    d == BlockDecision(i, readPaxType(out).pType)
                IN CASE d = "dummy" -> r.isNil /\ r.err = "none"
                     [] d = "raw" -> ~r.isNil /\ r.err = "none" /\ r.branch = "raw"
                     [] d = "lzo" -> \/ ~r.isNil /\ r.err = "none" /\ r.branch = "lzo"
                                     \/ r.isNil /\ r.err = "LZODecompress"
                     [] d = "lzss" -> \/ ~r.isNil /\ r.err = "none" /\ r.branch = "lzss"
                                      \/ r.isNil /\ r.err = "LZSSDecompress"
                     [] OTHER -> r.isNil /\ r.err = "InsufficientData"

\* DecodePAA on a DXT1 file whose block has bit 15 of the width set and the
\* raw length: the block is taken as raw
C23_Witness ==
    /\ dec.api = "DecodePAA" /\ dec.err = "none"
    /\ \E i \in 1 .. Len(out) :
           /\ out[i].kind = "mip" /\ out[i].wf >= 32768
           /\ BlockDecision(i, PaxDXT1) = "raw"
           /\ readPaxType(out).pType = PaxDXT1

C23_WitnessInsufficient == dec.api = "DecodePAA" /\ dec.err = "InsufficientData"
C23_WitnessLzo == dec.api = "DecodePAA" /\ dec.err = "LZODecompress"
C23_WitnessLzss == dec.api = "DecodePAA" /\ dec.err = "LZSSDecompress"
C23_WitnessDummy ==
    /\ dec.api = "DecodePAA" /\ dec.err = "none" /\ dec.dims = << <<4, 4>> >>
    /\ \E i \in 1 .. Len(out) : out[i].kind = "mip" /\ out[i].wf = 0 /\ out[i].hf = 0

Following(t, k) == t[k + 1] = t[k] + 7 + (MipBlocks(out)[k].len - 7)
TagBytes(name) == IF HasTag(out, name) THEN 16 ELSE 0

\* C24 as stated: the first SFFO entry is 2 + 16 + 16 + 16 + 16 for GALF +
\* 16 for ZIWS + 64 + 2, and each following entry is the previous one + 7 +
\* the stored payload length of the previous mip.
C24_SffoEntriesAsStated ==
    Succeeded =>
        LET t == TagPayload(out, "SFFO") IN
        /\ t[1] = 2 + 16 + 16 + 16 + TagBytes("GALF") + TagBytes("ZIWS") + 64 + 2
        /\ \A k \in 1 .. 15 : k < Len(MipBlocks(out)) => Following(t, k)

\* C24, amended: the SFFO tag takes 12 + 64 bytes, so the first entry is
\* 2 + 16 + 16 + 12 + 64 + 16 for GALF + 16 for ZIWS + 2; the following
\* entries are as stated.
C24_SffoEntries ==
    Succeeded =>
        LET t == TagPayload(out, "SFFO") IN
        /\ t[1] = 2 + 16 + 16 + 12 + 64 + TagBytes("GALF") + TagBytes("ZIWS") + 2
        /\ \A k \in 1 .. 15 : k < Len(MipBlocks(out)) => Following(t, k)

\* a file with GALF, ZIWS and several levels, one of them stored compressed
C24_Witness ==
    /\ Succeeded /\ HasTag(out, "GALF") /\ HasTag(out, "ZIWS")
    /\ Len(MipBlocks(out)) >= 3
    /\ \E k \in 1 .. Len(MipBlocks(out)) : MipBlocks(out)[k].enc # "raw"
    /\ TagPayload(out, "SFFO")[1] = 144

\* the hint's swizzle takes input alpha for R, G and B and constant 1 for A
AlphaToRGB(z) ==
    /\ \A e \in {z.R, z.G, z.B} : e = Sel(SwizzleA)
    /\ z.A = Const(255)
OpaqueColoured(im) ==
    /\ \A i \in UsedPal(im) : im.pal[i][4] = 255
    /\ \E i \in UsedPal(im), j \in UsedPal(im), c \in 1 .. 3, d \in 1 .. 3 :
           im.pal[i][c] # im.pal[j][d]
HandsOver == pc = "resolve" /\ pc' = "prepare" /\ call.hint.ok

\* C25: for a hint whose swizzle takes alpha for R, G, B and constant 1 for A
\* and an opaque image with non-constant RGB, the image handed to the encoder
\* has every alpha replaced by floor((R+G+B)/3) and its RGB unchanged.
C25_AlphaPromoted ==
    [][(HandsOver /\ AlphaToRGB(call.hint.Swizzle) /\ OpaqueColoured(img)) =>
           img'.pal = [i \in DOMAIN img.pal |->
                          <<img.pal[i][1], img.pal[i][2], img.pal[i][3],
                            (img.pal[i][1] + img.pal[i][2] + img.pal[i][3]) \div 3>>]]_vars

\* the policy engine hands the pixels over as they came
C25_PixelsAsGiven == [][HandsOver => img'.pal = img.pal]_vars

\* an opaque coloured image handed over under such a hint
C25_Reached ==
    /\ pc = "prepare" /\ call.hint.ok /\ AlphaToRGB(call.hint.Swizzle) /\ OpaqueColoured(img)
    /\ opts.SkipSwizzle

\* the options of a hint with format Default have been derived
DefaultFormatResolved ==
    pc = "prepare" /\ call.hint.ok /\ call.hint.Format = TexFormatDefault /\ ~opts.isNil
Alphas(im) == {im.pal[i][4] : i \in UsedPal(im)}

\* C26 as stated: with a hint of format Default the policy selects DXT1
\* exactly when every alpha is 255 or every alpha is 0 or 255, and DXT5 for
\* every other image.
C26_DefaultFormatAsStated ==
    DefaultFormatResolved =>
        opts.Type = IF Alphas(img) \subseteq {255} \/ Alphas(img) \subseteq {0, 255}
                    THEN PaxDXT1 ELSE PaxDXT5

\* C26: with a hint of format Default the policy selects DXT1 exactly when
\* every alpha is at least 0xF0 or every alpha is 0 or 255, and DXT5 for every
\* other image.
C26_DefaultFormat ==
    DefaultFormatResolved =>
        opts.Type = IF (\A a \in Alphas(img) : a >= 240) \/ Alphas(img) \subseteq {0, 255}
                    THEN PaxDXT1 ELSE PaxDXT5

\* an image of alpha 254 gets DXT1
C26_Witness ==
    DefaultFormatResolved /\ 254 \in Alphas(img) /\ opts.Type = PaxDXT1
\* a binary image with a transparent pixel gets DXT1, a half-transparent one DXT5
C26_WitnessBinary ==
    DefaultFormatResolved /\ Alphas(img) = {0, 255} /\ opts.Type = PaxDXT1
C26_WitnessDXT5 ==
    DefaultFormatResolved /\ 128 \in Alphas(img) /\ opts.Type = PaxDXT5

\* the code table of the ZIWS bytes: 0x00-0x03 copy A, R, G, B, 0x04-0x07
\* give 255 minus A, R, G, B, 0x08 gives 255, 0x09 gives 0
CodeTable(px, t) ==
    CASE t \in 0 .. 3 -> <<px[4], px[1], px[2], px[3]>>[t + 1]
      [] t \in 4 .. 7 -> 255 - <<px[4], px[1], px[2], px[3]>>[t - 3]
      [] t = 8 -> 255
      [] t = 9 -> 0
\* the decoder has applied a payload through the generic rule
GenericRuleApplied ==
    /\ sw.pc = "decoded" /\ sw.Type = PaxDXT5 /\ Len(sw.ZIWS) = 4
    /\ sw.ZIWS \notin {swizzleDXT5NM, swizzleADSHQ}
\* the output channels in the order of the tag bytes: A, R, G, B
TagOrder(px) == <<px[4], px[1], px[2], px[3]>>

\* C27: when the decoder applies a SWIZTAGG through the generic rule, each of
\* the four tag bytes (A, R, G, B order) sets its output channel as the code
\* table says: 0x00-0x03 copy, 0x04-0x07 give 255 minus, 0x08 gives 255 and
\* 0x09 gives 0.
C27_GenericRule ==
    GenericRuleApplied =>
        \A i \in 1 .. 4 : TagOrder(sw.decoded)[i] = CodeTable(sw.stored, sw.ZIWS[i])

\* the table holds for the codes 0x00-0x08, and 0x09 gives 255
C27_GenericRuleUpToOne ==
    GenericRuleApplied =>
        \A i \in 1 .. 4 :
            TagOrder(sw.decoded)[i] = IF sw.ZIWS[i] = 9 THEN 255
                                      ELSE CodeTable(sw.stored, sw.ZIWS[i])

\* a payload with a copy, a negation and both constants went through the rule
C27_Reached ==
    /\ GenericRuleApplied
    /\ \E i, j, k, l \in 1 .. 4 :
           sw.ZIWS[i] \in 0 .. 3 /\ sw.ZIWS[j] \in 4 .. 7 /\ sw.ZIWS[k] = 8 /\ sw.ZIWS[l] = 9

\* the fields of the options the overrides leave alone
FrameFields ==
    {"isNil", "Type", "UseLZO", "WriteSwizzleTag", "SwizzleTag", "WriteGALF", "GALFValue",
     "MipmapFilter", "GenerateMipmaps", "MaxMipCount", "MinMipSize", "UseSRGB",
     "NormalMapSwizzle", "WriteNohqSwizzleTag"}
\* one field of the merged BCn options: the override's value when it is set
\* (not nil, not zero, not false), the derived one otherwise
MergedField(d, o, f) == IF o[f] = NilBCn[f] THEN d[f] ELSE o[f]
BCnFields ==
    {"RGBWeights", "Refinement", "QualityLevel", "Workers", "GenerateMipmaps", "UseSRGB",
     "AlphaThreshold"}
Overridden == pc = "overridden" /\ ~call.dst.isNil /\ ~call.override.isNil

\* C28: applyEncodeOverrides changes only BCn (merged field by field),
\* SkipSwizzle together with Swizzle (set true and cleared when the override
\* asks for it), ForceCXAMFull (always the override's value) and ForceLZSS
\* (only ever turned on); Type, UseLZO, WriteSwizzleTag, SwizzleTag,
\* WriteGALF, GALFValue, MipmapFilter, the mip limits and UseSRGB are left
\* unchanged whatever the override holds.
C28_OverrideFrame ==
    /\ (pc = "overridden" /\ (call.dst.isNil \/ call.override.isNil)) => opts = call.dst
    /\ Overridden =>
           /\ \A f \in FrameFields : opts[f] = call.dst[f]
           /\ opts.ForceCXAMFull = call.override.ForceCXAMFull
           /\ opts.ForceLZSS = (call.dst.ForceLZSS \/ call.override.ForceLZSS)
           /\ opts.SkipSwizzle = (call.dst.SkipSwizzle \/ call.override.SkipSwizzle)
           /\ opts.Swizzle = IF call.override.SkipSwizzle THEN "nil" ELSE call.dst.Swizzle
           /\ opts.BCn.isNil = (call.dst.BCn.isNil /\ call.override.BCn.isNil)
           /\ \A f \in BCnFields :
                  opts.BCn[f] = IF call.override.BCn.isNil THEN call.dst.BCn[f]
                                ELSE MergedField(call.dst.BCn, call.override.BCn, f)

\* an override that differs from the derived options in the fields left
\* alone, asks to skip a set swizzle, clears ForceCXAMFull and merges BCn
C28_Witness ==
    /\ Overridden
    /\ call.override.Type # call.dst.Type /\ call.override.Type # 0
    /\ call.override.UseLZO # call.dst.UseLZO
    /\ call.override.GALFValue # call.dst.GALFValue
    /\ call.override.MipmapFilter \notin {"nil", call.dst.MipmapFilter}
    /\ call.override.SkipSwizzle /\ call.dst.Swizzle = "set" /\ opts.Swizzle = "nil"
    /\ call.dst.ForceCXAMFull /\ ~opts.ForceCXAMFull
    /\ call.dst.ForceLZSS /\ ~call.override.ForceLZSS /\ opts.ForceLZSS
    /\ ~call.dst.BCn.isNil /\ ~call.override.BCn.isNil /\ opts.BCn \notin {call.dst.BCn, call.override.BCn}

\* the options of a resolved hint have been derived
HintResolved == pc = "prepare" /\ call.hint.ok /\ ~opts.isNil
Galf(o) == IF o.WriteGALF THEN o.GALFValue ELSE 0
BinaryAlpha(im) == Alphas(im) \subseteq {0, 255}
SomeLowAlpha(im) == \E a \in Alphas(im) : a < 240

\* C29 as stated: GALF value 1 is written if some pixel has alpha below 0xF0,
\* value 2 if the alpha is binary (every alpha 0 or 255), value 2 for the
\* classes detail and detail_short whatever the alpha; no other image gets a
\* GALF tag.
C29_GalfAsStated ==
    HintResolved =>
        Galf(opts) = IF isDetailHint(call.hint) \/ BinaryAlpha(img) THEN 2
                     ELSE IF SomeLowAlpha(img) THEN 1 ELSE 0

\* C29: GALF is written when some pixel has alpha below 0xF0, with value 2 if
\* the alpha is binary (every alpha 0 or 255) and value 1 otherwise; for the
\* classes detail and detail_short it is written with value 2 whatever the
\* alpha; no other image gets a GALF tag.
C29_Galf ==
    HintResolved =>
        Galf(opts) = IF isDetailHint(call.hint) THEN 2
                     ELSE IF ~SomeLowAlpha(img) THEN 0
                     ELSE IF BinaryAlpha(img) THEN 2 ELSE 1

\* a fully opaque image of another class gets no GALF tag
C29_Witness ==
    HintResolved /\ ~isDetailHint(call.hint) /\ Alphas(img) = {255} /\ ~opts.WriteGALF
C29_WitnessOne ==
    HintResolved /\ ~isDetailHint(call.hint) /\ 128 \in Alphas(img) /\ Galf(opts) = 1
C29_WitnessTwo ==
    HintResolved /\ ~isDetailHint(call.hint) /\ Alphas(img) = {0, 255} /\ Galf(opts) = 2
C29_WitnessDetail ==
    HintResolved /\ isDetailHint(call.hint) /\ 128 \in Alphas(img) /\ Galf(opts) = 2
C29_WitnessHigh ==
    HintResolved /\ ~isDetailHint(call.hint) /\ Alphas(img) = {254} /\ ~opts.WriteGALF

\* the call returned an error that is not the output writer's
OwnError == pc = "failed" /\ err # "WriterError"

\* C30: if EncodeWithOptions or EncodeWithTexConfigOptions returns an error
\* that does not come from the output writer, no byte has been written to the
\* output.
C30_NothingWrittenOnError == OwnError => out = <<>>

\* the only such error after a write is the ErrInvalidDimensions of the loop
\* over the mip levels
C30_OnlyMipDimensionsLate ==
    (OwnError /\ out # <<>>) =>
        /\ err = "InvalidDimensions"
        /\ mi <= Len(mips) /\ MipDimErr(mips[mi]) = "InvalidDimensions"

\* an error of the checks before the first write, and one after the header
C30_ReachedEarly == OwnError /\ out = <<>> /\ err \in {"UnsupportedFormat", "ExternalError"}
C30_ReachedLate == OwnError /\ out # <<>>
====
